---- MODULE Spec2Model ----
(***************************************************************************)
(* Scribe: the capture loop (AudioRecorder), the segmentation and          *)
(* persistence driver (Transcriber) and the orchestrator's start/stop      *)
(* sequence, as three interleaved processes sharing the Frame Queue.       *)
(*                                                                         *)
(* Units.  Amplitudes are fixed-point, 1 unit = 0.001 of full scale, so    *)
(* the default thresholds 0.01 and 0.005 are 10 and 5.  Durations are in   *)
(* milliseconds.  The policy durations, the sample rate and the batch size *)
(* are configuration/constructor values of the program; the model runs     *)
(* with a scaled-down setting (2 samples per second, 2-sample batches,     *)
(* min 2 s, max 3 s, tail 1 s): one batch is below min_duration, two       *)
(* batches lie between min_duration and max_duration, three reach          *)
(* max_duration, and the tail window is the last batch.                    *)
(*                                                                         *)
(* Spec covers one session from construction to teardown with the recorder *)
(* never paused (pause() and resume() are not among its actions) and the   *)
(* wall clock standing still.  SpecClock is the recording session with the *)
(* clock advancing across midnight; SpecPause is the session with pause()  *)
(* and resume() and the capture loop's test of the flag and its put taken  *)
(* as separate steps.  Queue items carry the number of their put, which    *)
(* the program does not store and which only the ordering property reads.  *)
(***************************************************************************)
EXTENDS Integers, Sequences, FiniteSets, TLC

\* ------------------------------------------------------------ bounds
\* Device reads the capture loop performs in one run of the model.
MaxBatches == 4
\* Failures (archive write, resample, transcription, transcript write) the
\* environment injects in one run of the model.
MaxFaults == 1
\* Seconds the wall clock advances in one run of the model.
MaxTicks == 3

\* SessionManager objects created in one run of the model.
MaxSessions == 3

\* Capture threads of one recorder that run on after start_recording() has
\* replaced them, in one run of the model.
MaxStaleLoops == 2

\* Processes of the application started on one machine.
MaxProcs == 2

\* ------------------------------------------------- program constants
\* AudioRecorder.native_sample_rate, handed to the Transcriber (scaled).
native_sample_rate == 2
\* Segmentation policy parameters, transcriber.py 36-45 (ms / 0.001 units).
min_duration == 2000
max_duration == 3000
silence_threshold == 10
silence_duration == 1000
silence_chunk_threshold == 5
\* Seconds in a day and in a minute (and minutes in an hour): the ranges of
\* the %H:%M:%S fields.
SecondsPerDay == 86400
SecondsPerMinute == 60
\* The session starts two seconds before midnight, so that the timestamps of
\* a run lie on both sides of it.
SessionStart == SecondsPerDay - 2
\* max_silent_chunks is chosen per run from the default 1 and from 2.
MaxSilentChunksChoices == {1, 2}

\* The batches one device read can return (record(numframes=...) followed by
\* _to_mono: a fixed number of mono samples, two in the scaled setting):
\* loud (a sample of -0.5), quiet (a sample of -0.007, between the two
\* thresholds) and silent throughout (0.001).
BatchSet ==
    { <<1, -500>>, <<-7, 1>>, <<1, 1>> }

\* ------------------------------------------------------------ helpers
Abs(x) == IF x < 0 THEN -x ELSE x

RECURSIVE SeqMax(_)
SeqMax(s) ==
    IF Len(s) = 1 THEN Head(s)
    ELSE LET m == SeqMax(Tail(s)) IN IF Head(s) > m THEN Head(s) ELSE m

\* np.max(np.abs(a)) of a non-empty array.
MaxAbs(a) == SeqMax([i \in 1..Len(a) |-> Abs(a[i])])

\* a[-k:] of numpy/python: the last k elements; the whole array when k = 0
\* (a[-0:] is a[0:]) or when k exceeds the length.
LastK(a, k) ==
    IF k = 0 \/ k >= Len(a) THEN a
    ELSE SubSeq(a, Len(a) - k + 1, Len(a))

\* Mutant of QueuePut: the item is put at the head (a LIFO queue).
QueuePutAtHead(queue, item) == <<item>> \o queue

\* queue.Queue: put appends at the tail, get_nowait removes the head.
QueuePut(queue, item) == Append(queue, item)
QueueFront(queue) == Head(queue)
QueueRest(queue) == Tail(queue)

\* Mutant of Concatenate: the new batch replaces the buffer.
ConcatenateDropsBuffer(buf, data) == data

\* np.concatenate((self.buffer, data)).
Concatenate(buf, data) == buf \o data

\* len(self.buffer) / self.native_sample_rate, in ms.
BufferDuration(buf) == (Len(buf) * 1000) \div native_sample_rate

\* int(self.silence_duration * self.native_sample_rate).
SilenceCheckSamples == (silence_duration * native_sample_rate) \div 1000

\* datetime.now().strftime("%H:%M:%S") of the clock reading t (seconds):
\* hour, minute and second of the day, the date dropped.
Timestamp(t) ==
    <<(t % SecondsPerDay) \div (SecondsPerMinute * SecondsPerMinute),
      ((t % SecondsPerDay) \div SecondsPerMinute) % SecondsPerMinute,
      t % SecondsPerMinute>>

\* datetime.now().strftime("%Y-%m-%d_%H-%M-%S") of the clock reading t: the
\* day and the hour, minute and second of the day.
SessionId(t) == <<t \div SecondsPerDay>> \o Timestamp(t)

\* session.py 26-29: the session directory and the two transcript paths.
BaseDir(session_id) == <<"sessions", session_id>>
TranscriptRawPath(session_id) == BaseDir(session_id) \o <<"transcript_full.txt">>
TranscriptLogseqPath(session_id) == BaseDir(session_id) \o <<"notes_logseq.md">>

\* The value of the local timestamp outside lines 162-180.
NoTimestamp == <<>>

\* Line 167: f"[{timestamp}] {text_accumulated}\n", as its parts.
RawLine(ts, text) == <<"[", ts, "] ", text, "\n">>

\* Mutant of LogseqLine: the structured line carries no text.
LogseqLineNoText(ts, text) == <<"\n## [", ts, "] ", "">>

\* Line 174: f"\n## [{timestamp}] {text_accumulated}", as its parts.
LogseqLine(ts, text) == <<"\n## [", ts, "] ", text>>

\* An exception raised at stage kind of dispatch number seg.
Failure(kind, seg) == [kind |-> kind, seg |-> seg]

\* ------------------------------------------------------------ devices
\* A device as soundcard lists it: its name (a sequence of characters) and
\* whether it is a loopback device.  NoDevice stands for None.
Device(name, isloopback) == [name |-> name, isloopback |-> isloopback]
NoDevice == Device(<<>>, FALSE)

\* The devices of the model: the loopback of the default speaker "S", the
\* loopback of another output "H", and the microphones "M" and "U".
LoopS == Device(<<"S">>, TRUE)
LoopH == Device(<<"H">>, TRUE)
MicM == Device(<<"M">>, FALSE)
MicU == Device(<<"U">>, FALSE)

\* sc.all_microphones(include_loopback=True): the lists the model draws
\* from; ListingFails stands for the call raising.
ListingFails == <<Device(<<"!">>, FALSE)>>
MicLists ==
    { <<LoopS, MicM>>, <<MicM, LoopH, LoopS>>, <<MicM, MicU, LoopH>>,
      <<MicU, MicM>>, <<LoopH>>, <<>>, ListingFails }

\* sc.default_speaker() / sc.default_microphone(): a device name, None, or
\* an exception.
Named(name) == [status |-> "device", name |-> name]
Nothing == [status |-> "none", name |-> <<>>]
Raises == [status |-> "raises", name |-> <<>>]

\* str.lower() on the characters of the model.
Lower(name) ==
    [i \in 1..Len(name) |->
        CASE name[i] = "S" -> "s" [] name[i] = "H" -> "h"
          [] name[i] = "M" -> "m" [] name[i] = "U" -> "u"
          [] OTHER -> name[i]]

\* `a in b` on strings.
Contains(a, b) ==
    \E i \in 1..(Len(b) - Len(a) + 1) : SubSeq(b, i, i + Len(a) - 1) = a

\* The first of a set of positions of a list; 0 when the set is empty.
FirstIndex(indices) ==
    IF indices = {} THEN 0
    ELSE CHOOSE i \in indices : \A j \in indices : i <= j

\* find_default_loopback: the first loopback device whose name contains the
\* default speaker's name; None when there is none or the lookup raises.
FindDefaultLoopback(l, speaker) ==
    LET matches == { i \in 1..Len(l) :
                       l[i].isloopback /\ Contains(speaker.name, l[i].name) }
    IN  IF speaker.status = "device" /\ matches /= {}
        THEN l[FirstIndex(matches)] ELSE NoDevice

\* find_default_capture: the non-loopback device named like the default
\* microphone, else the first non-loopback device, else None.
FindDefaultCapture(l, default_mic) ==
    LET matches == { i \in 1..Len(l) :
                       ~l[i].isloopback /\ l[i].name = default_mic.name }
        captures == { i \in 1..Len(l) : ~l[i].isloopback }
    IN  IF default_mic.status = "device" /\ matches /= {}
        THEN l[FirstIndex(matches)]
        ELSE IF captures /= {} THEN l[FirstIndex(captures)]
        ELSE NoDevice

\* Lines 117-124: the non-loopback device whose name equals the configured
\* one, case-insensitively.
FindNamedCapture(l, wanted) ==
    LET matches == { i \in 1..Len(l) :
                       ~l[i].isloopback /\ Lower(l[i].name) = Lower(wanted) }
    IN  IF wanted /= <<>> /\ matches /= {}
        THEN l[FirstIndex(matches)] ELSE NoDevice

\* np.clip(x, -1.0, 1.0) in the model's units.
FullScale == 1000
Clip(x) == IF x > FullScale THEN FullScale ELSE IF x < -FullScale THEN -FullScale ELSE x

\* x / 2.0 to the model's resolution (rounded towards zero).
Halve(x) == IF x >= 0 THEN x \div 2 ELSE -((-x) \div 2)

\* The batches a read of the secondary device can return, as mono samples.
MicBatchSet == { <<600, 600>>, <<3, -900>> }

\* The gains the recorder is constructed with (whole multiples of 1.0).
GainChoices == {1, 2}

\* Mutant of MixSources: the sum is halved and not clipped.
MixSourcesNoClip(loop_mono, mic_mono, loop_gain, gain) ==
    [i \in 1..Len(loop_mono) |-> Halve(loop_mono[i] * loop_gain + mic_mono[i] * gain)]

\* _mix_sources: gains applied, an empty side returns the other, both cut
\* to the shorter length, summed, halved and clipped.
MixSources(loop_mono, mic_mono, loop_gain, gain) ==
    IF Len(loop_mono) = 0 THEN [i \in 1..Len(mic_mono) |-> mic_mono[i] * gain]
    ELSE IF Len(mic_mono) = 0 THEN [i \in 1..Len(loop_mono) |-> loop_mono[i] * loop_gain]
    ELSE LET min_len == IF Len(loop_mono) < Len(mic_mono) THEN Len(loop_mono) ELSE Len(mic_mono)
         IN  [i \in 1..min_len |->
                Clip(Halve(loop_mono[i] * loop_gain + mic_mono[i] * gain))]


\* ------------------------------------------------------ configuration
\* A YAML value: a number, a string, null, a list, or no entry at all.
Num(n) == [t |-> "num", v |-> n]
Str == [t |-> "str", v |-> 0]
Null == [t |-> "null", v |-> 0]
List == [t |-> "list", v |-> 0]
Absent == [t |-> "absent", v |-> 0]
Mapping(m) == [t |-> "map", v |-> m]

\* DEFAULT_CONFIG["transcription"], in the units and the scale of the model;
\* the fallbacks of Transcriber.__init__ are the same values.
DefaultTranscription ==
    [min_duration |-> Num(min_duration),
     max_duration |-> Num(max_duration),
     silence_threshold |-> Num(silence_threshold),
     silence_duration |-> Num(silence_duration),
     silence_chunk_threshold |-> Num(silence_chunk_threshold),
     max_silent_chunks |-> Num(1)]

PolicyKeys == DOMAIN DefaultTranscription

\* The "transcription" sections a configuration file can hold: a mapping
\* with any of three of the parameters set to a number (a duration shorter
\* or longer than the defaults, a negative one) or to a string.
TranscriptionMappings ==
    [min_duration : {Absent, Num(1000), Num(4000), Num(-1000), Str},
     max_duration : {Absent, Num(1000), Num(4000), Num(-1000), Str},
     silence_threshold : {Absent, Num(-10), Str},
     silence_duration : {Absent},
     silence_chunk_threshold : {Absent},
     max_silent_chunks : {Absent}]

\* The configuration sources: no file, a file yaml cannot parse, an empty
\* document, a document that is a scalar, and a mapping whose "transcription"
\* entry is missing, null, a string, a list or a mapping.
ConfigSources ==
    {[kind |-> "missing", transcription |-> Absent],
     [kind |-> "unparseable", transcription |-> Absent],
     [kind |-> "empty", transcription |-> Absent],
     [kind |-> "scalar", transcription |-> Absent]}
    \cup {[kind |-> "mapping", transcription |-> x] : x \in {Absent, Null, Str, List}}
    \cup {[kind |-> "mapping", transcription |-> Mapping(m)] : m \in TranscriptionMappings}

\* dict.update(values) on the section's defaults.
Update(defaults, m) ==
    [k \in DOMAIN defaults |-> IF m[k] = Absent THEN defaults[k] ELSE m[k]]

\* load_config, as the "transcription" section of its result: the defaults
\* when the file is missing, when anything raises (the parse, .items() on a
\* document that is no mapping, .update() with a value that is no mapping),
\* and for an empty document; else the defaults updated with the section.
LoadConfig(file) ==
    IF file.kind /= "mapping" \/ file.transcription = Absent
    THEN DefaultTranscription
    ELSE IF file.transcription.t = "map"
         THEN Update(DefaultTranscription, file.transcription.v)
         ELSE DefaultTranscription

\* ----------------------------------------------- callers of the recorder
\* ScribeProGUI.__init__: not recording, not paused; recorder.mic is the
\* attribute start_recording sets, NoDevice while it is not set.
GuiIdle == [is_recording |-> FALSE, is_paused |-> FALSE, mic |-> NoDevice]

\* No thread runs that its owner has lost the reference to.
NoThreads == [capture_loops |-> 0, driver_loops |-> 0]

\* The processes of the application that are started, named by their PIDs.
Procs == 1 .. MaxProcs

\* The lock file: missing, just created and still empty, or holding a PID.
NoFile == [exists |-> FALSE, text |-> <<>>]
FileOf(pid) == [exists |-> TRUE, text |-> <<pid>>]

\* Every process is about to call check_instance_running() and has read
\* nothing from the lock file.
NotStarted == [p \in Procs |-> [pc |-> "start", text |-> <<>>]]

\* The mic_gain / loopback_gain arguments of AudioRecorder(...): None or a
\* number; and what the "audio" section of the file says of each: nothing,
\* null or a number.
GainArguments == {Null, Num(0), Num(1), Num(2)}
GainSettings == {Absent, Null, Num(0), Num(1), Num(2)}

\* The recorder was constructed with no gain argument and no gain setting.
NoCall ==
    [called |-> FALSE, mic_gain |-> Null, loopback_gain |-> Null,
     audio_config |-> [mic_gain |-> Absent, loopback_gain |-> Absent]]

\* The calls AudioRecorder(mic_gain=..., loopback_gain=...) with the audio
\* configuration they find.
Calls ==
    [called : {TRUE}, mic_gain : GainArguments, loopback_gain : GainArguments,
     audio_config : [mic_gain : GainSettings, loopback_gain : GainSettings]]

\* Python's truth value of None or a number.
Truthy(x) == x.t = "num" /\ x.v /= 0

\* Lines 38-39: the argument when it is not None, else
\* audio_config.get(key, 1.0) on the section merged over the defaults of 1.0.
RawGain(arg, setting) ==
    IF arg /= Null THEN arg
    ELSE IF setting = Absent THEN Num(1) ELSE setting

\* Lines 40-41: float(raw or 1.0).
EffectiveGain(arg, setting) ==
    IF Truthy(RawGain(arg, setting)) THEN RawGain(arg, setting).v ELSE 1

\* -------------------------------------------------------------- state
VARIABLES
    \* orchestrator (cli.record_command / ScribeProGUI)
    orchPc,
    \* AudioRecorder
    running, paused, q, recPc, payload, reads,
    \* Transcriber
    drvPc, buffer, silent_chunks_count, max_silent_chunks, chunk_counter,
    \* session directory: archive file numbers, the two transcript files
    audio_files, transcript_raw, transcript_logseq,
    \* invocations of auto_stop_callback
    callback_calls,
    \* injected failures so far
    faults,
    \* the wall clock (seconds), and transcribe_buffer's locals timestamp and
    \* text_accumulated
    now, timestamp, text_accumulated,
    \* history kept for the properties
    puts, gets, lastGot, segBatches, cutKind, dispatchNo,
    silentRun, callsInRun, lastSeg, trailingAtStop, evalAfterStop,
    \* the failures injected into the dispatch under way;
    \* transcription calls made on the audio now in the buffer
    failures, submits,
    \* the audio system: the device list, the default speaker and microphone
    mics, default_speaker, default_microphone,
    \* AudioRecorder: devices, mixing and gains; the open secondary stream
    loopback_device, mic_device, mix_mic, mic_device_name, mic_gain,
    loopback_gain, mic_recorder,
    \* select_device's argument and outcome; the exception the capture loop
    \* caught, and the data of its last two reads
    manual_mode, selected, rec_error, loop_data, mic_data,
    \* whether the recorder was constructed with mixing on
    mix_requested,
    \* the configuration file, ConfigManager.config["transcription"], the
    \* Transcriber's policy parameters, and the position of the construction
    config_file, vad_config, policy, cfgPc,
    \* the SessionManager objects created so far, by cli.record_command or by
    \* ScribeProGUI.start_recording, each with its session_id
    sessions,
    \* MeetingSynthesizer.run: its position, and the renamed notes file
    synthPc, final_notes,
    \* ScribeProGUI: is_recording, is_paused and the attribute recorder.mic it
    \* sets; the threads that still run and that no object refers to any more
    gui, stale,
    \* the arguments and the audio configuration of the last
    \* AudioRecorder(...) call
    init_call,
    \* the archive files written from the audio that is now in the buffer
    archives,
    \* utils/instance.py: the lock file, and for each process its position
    \* in the helpers and the text it last read from the file
    lock_file, procs

recVars == <<running, paused, q, recPc, payload, reads>>
drvVars == <<drvPc, buffer, silent_chunks_count, max_silent_chunks, chunk_counter>>
diskVars == <<audio_files, transcript_raw, transcript_logseq>>
histVars == <<puts, gets, lastGot, segBatches, cutKind, dispatchNo,
              silentRun, callsInRun, lastSeg, trailingAtStop, evalAfterStop>>
tsVars == <<now, timestamp, text_accumulated>>
faultVars == <<failures>>
selVars == <<mics, default_speaker, default_microphone, loopback_device,
             mic_device, mic_device_name, mic_gain, loopback_gain,
             manual_mode, selected, mix_requested>>
devVars == <<selVars, mix_mic, mic_recorder, rec_error, loop_data, mic_data>>
cfgVars == <<config_file, vad_config, policy, cfgPc>>
synthVars == <<synthPc, final_notes>>
lockVars == <<lock_file, procs>>
apiVars == <<gui, stale, init_call, lockVars>>
sysVars == <<devVars, cfgVars, sessions, synthVars, apiVars>>
extVars == <<sysVars, archives>>
vars == <<orchPc, recVars, drvVars, diskVars, callback_calls, faults, histVars,
          tsVars, faultVars, submits, extVars>>

\* The fields of a new AudioRecorder and a new Transcriber, the empty session
\* directory, the clock, and the history.
Constructed ==
    /\ running = FALSE
    /\ paused = FALSE
    /\ q = <<>>
    /\ recPc = "idle"
    /\ payload = <<>>
    /\ reads = 0
    /\ drvPc = "idle"
    /\ buffer = <<>>
    /\ silent_chunks_count = 0
    /\ max_silent_chunks \in MaxSilentChunksChoices
    /\ chunk_counter = 0
    /\ audio_files = {}
    /\ transcript_raw = <<>>
    /\ transcript_logseq = <<>>
    /\ callback_calls = 0
    /\ faults = 0
    /\ puts = 0
    /\ gets = 0
    /\ lastGot = 0
    /\ segBatches = <<>>
    /\ cutKind = "none"
    /\ dispatchNo = 0
    /\ silentRun = 0
    /\ callsInRun = 0
    /\ lastSeg = "none"
    /\ trailingAtStop = FALSE
    /\ evalAfterStop = FALSE
    /\ now = SessionStart
    /\ timestamp = NoTimestamp
    /\ text_accumulated = ""
    /\ failures = {}
    /\ submits = 0
    /\ rec_error = "none"
    /\ mic_recorder = FALSE
    /\ loop_data = <<>>
    /\ mic_data = <<>>
    /\ synthPc = "idle"
    /\ final_notes = <<>>
    /\ gui = GuiIdle
    /\ stale = NoThreads
    /\ init_call = NoCall
    /\ archives = 0
    /\ lock_file = NoFile
    /\ procs = NotStarted

\* SessionManager() has been called once, by cli.record_command.
SessionCreated ==
    sessions = <<[session_id |-> SessionId(SessionStart), by |-> "cli"]>>

\* The Transcriber constructed with no configuration file present.
DefaultPolicyLoaded ==
    /\ config_file = [kind |-> "missing", transcription |-> Absent]
    /\ vad_config = DefaultTranscription
    /\ policy = DefaultTranscription
    /\ cfgPc = "initialised"

\* The recorder after select_device() on a system whose default speaker has
\* a loopback device, without mixing and with gains of 1.0.
DefaultDevices ==
    /\ mics = <<LoopS, MicM>>
    /\ default_speaker = Named(<<"S">>)
    /\ default_microphone = Named(<<"M">>)
    /\ loopback_device = LoopS
    /\ mic_device = NoDevice
    /\ mix_mic = FALSE
    /\ mic_device_name = <<>>
    /\ mic_gain = 1
    /\ loopback_gain = 1
    /\ manual_mode = FALSE
    /\ selected = TRUE
    /\ mix_requested = FALSE

\* The state after SessionManager(), AudioRecorder() + select_device() and
\* Transcriber(recorder.q, ..., auto_stop_callback) have been constructed.
Init ==
    /\ orchPc = "constructed"
    /\ Constructed
    /\ SessionCreated
    /\ DefaultDevices
    /\ DefaultPolicyLoaded

\* ------------------------------------------------------- orchestrator
\* recorder.start_recording(): running = True, the capture thread starts.
OrchStartRecording ==
    /\ orchPc = "constructed"
    /\ running' = TRUE
    /\ recPc' = "open"
    /\ orchPc' = "recorder_started"
    /\ UNCHANGED <<extVars, tsVars, faultVars, submits, paused, q, payload, reads, drvVars, diskVars,
                   callback_calls, faults, histVars>>

\* threading.Thread(target=transcriber.process_audio).start().
OrchStartTranscriber ==
    /\ orchPc = "recorder_started"
    /\ drvPc' = "drain"
    /\ orchPc' = "recording"
    /\ UNCHANGED <<extVars, tsVars, faultVars, submits, recVars, buffer, silent_chunks_count, max_silent_chunks,
                   chunk_counter, diskVars, callback_calls, faults, histVars>>

\* AudioRecorder.stop_recording(): running = False, then thread.join(timeout=1).
OrchStopRecording ==
    /\ orchPc = "recording"
    /\ running' = FALSE
    /\ orchPc' = "joining"
    /\ trailingAtStop' = (Len(buffer) > 0 /\ BufferDuration(buffer) < min_duration)
    /\ UNCHANGED <<extVars, tsVars, faultVars, submits, paused, q, recPc, payload, reads, drvVars, diskVars,
                   callback_calls, faults, puts, gets, lastGot, segBatches,
                   cutKind, dispatchNo, silentRun, callsInRun, lastSeg,
                   evalAfterStop>>

\* Mutant of OrchJoinReturns: join() without a timeout.
OrchJoinNoTimeout ==
    /\ orchPc = "joining"
    /\ recPc = "exited"
    /\ orchPc' = "grace"
    /\ UNCHANGED <<extVars, tsVars, faultVars, submits, recVars, drvVars, diskVars, callback_calls, faults, histVars>>

\* join(timeout=1) returns: the capture thread has exited, or the timeout has
\* passed with the thread still inside a device call (opening the streams,
\* or a read).
OrchJoinReturns ==
    /\ orchPc = "joining"
    /\ recPc \in {"exited", "record", "open"}
    /\ orchPc' = "grace"
    /\ UNCHANGED <<extVars, tsVars, faultVars, submits, recVars, drvVars, diskVars, callback_calls, faults, histVars>>

\* time.sleep(1) after stop_recording has elapsed: synthesis / teardown starts.
OrchGraceElapsed ==
    /\ orchPc = "grace"
    /\ orchPc' = "teardown"
    /\ UNCHANGED <<extVars, tsVars, faultVars, submits, recVars, drvVars, diskVars, callback_calls, faults, histVars>>

\* ------------------------------------------------------- capture loop
\* `while self.running:` at the top of each read cycle.
RecCheck ==
    /\ recPc = "check"
    /\ recPc' = IF running THEN "record" ELSE "exited"
    /\ UNCHANGED <<extVars, tsVars, faultVars, submits, orchPc, running, paused, q, payload, reads, drvVars, diskVars,
                   callback_calls, faults, histVars>>

\* loop_recorder.record(numframes) returns a batch; payload = _to_mono(...).
RecRead ==
    /\ recPc = "record"
    /\ reads < MaxBatches
    /\ \E b \in BatchSet : payload' = b
    /\ reads' = reads + 1
    /\ recPc' = "deliver"
    /\ UNCHANGED <<extVars, tsVars, faultVars, submits, orchPc, running, paused, q, drvVars, diskVars,
                   callback_calls, faults, histVars>>

\* Lines 159-172 as one step: the device read returns a batch, the read of
\* the secondary device returns one when mixing is on and the two are mixed,
\* and `if not self.paused: self.q.put(payload)` delivers the payload.  The
\* locals loop_data and mic_data are kept while mixing is on.  Between the return
\* of the read and the put the capture thread reads no shared variable but
\* paused, and Spec and SpecClock never call pause(), so no step of another
\* thread can fall in between with an effect; SpecPause, where pause() and
\* resume() can, takes the read, the test and the put separately.
RecReadDeliver ==
    /\ recPc = "record"
    /\ reads < MaxBatches
    /\ reads' = reads + 1
    /\ recPc' = "check"
    /\ \E b \in BatchSet :
       \E m \in (IF mix_mic /\ mic_recorder THEN MicBatchSet ELSE {<<>>}) :
          /\ loop_data' = (IF mix_mic /\ mic_recorder THEN b ELSE <<>>)
          /\ mic_data' = m
          /\ IF paused
             THEN UNCHANGED <<q, puts>>
             ELSE /\ q' = QueuePut(q,
                          [no |-> puts + 1,
                           data |-> IF mix_mic /\ mic_recorder
                                    THEN MixSources(b, m, loopback_gain, mic_gain)
                                    ELSE b])
                  /\ puts' = puts + 1
    /\ UNCHANGED <<apiVars, archives, synthVars, sessions, cfgVars, selVars, mix_mic, mic_recorder, rec_error, tsVars, faultVars, submits, orchPc, running, paused, payload,
                   drvVars, diskVars, callback_calls, faults, gets, lastGot,
                   segBatches, cutKind, dispatchNo, silentRun, callsInRun,
                   lastSeg, trailingAtStop, evalAfterStop>>

\* Lines 139-157: no primary device, the loop returns at once; else both
\* streams are opened, and mixing is switched off when there is no secondary
\* stream.
RecOpen ==
    /\ recPc = "open"
    /\ IF loopback_device = NoDevice
          THEN /\ recPc' = "exited"
               /\ UNCHANGED <<mix_mic, mic_recorder>>
          ELSE /\ recPc' = "check"
               /\ mic_recorder' = (mix_mic /\ mic_device /= NoDevice)
               /\ mix_mic' = (mix_mic /\ mic_device /= NoDevice)
    /\ UNCHANGED <<apiVars, archives, synthVars, sessions, cfgVars, selVars, rec_error, loop_data, mic_data, tsVars, faultVars,
                   submits, orchPc, running, paused, q, payload, reads, drvVars,
                   diskVars, callback_calls, faults, histVars>>

\* Opening the primary stream (line 149) raises: caught at line 173.
RecOpenFails ==
    /\ recPc = "open"
    /\ loopback_device /= NoDevice
    /\ recPc' = "exited"
    /\ running' = FALSE
    /\ rec_error' = "open"
    /\ UNCHANGED <<apiVars, archives, synthVars, sessions, cfgVars, selVars, mix_mic, mic_recorder, loop_data, mic_data, tsVars,
                   faultVars, submits, orchPc, paused, q, payload, reads, drvVars,
                   diskVars, callback_calls, faults, histVars>>

\* Opening the secondary stream (line 150, entering mic_context) raises: the
\* exception is inside the same try and is caught at line 173.
RecMicOpenFails ==
    /\ recPc = "open"
    /\ loopback_device /= NoDevice
    /\ mix_mic
    /\ mic_device /= NoDevice
    /\ recPc' = "exited"
    /\ running' = FALSE
    /\ rec_error' = "mic_open"
    /\ UNCHANGED <<apiVars, archives, synthVars, sessions, cfgVars, selVars, mix_mic, mic_recorder, loop_data, mic_data, tsVars,
                   faultVars, submits, orchPc, paused, q, payload, reads, drvVars,
                   diskVars, callback_calls, faults, histVars>>

\* Mutant of RecReadFails: no handler, the exception leaves the thread's
\* function with the flag as it was.
RecReadFailsEscapes ==
    /\ recPc = "record"
    /\ recPc' = "raised"
    /\ rec_error' = "read"
    /\ UNCHANGED <<apiVars, archives, synthVars, sessions, cfgVars, selVars, mix_mic, mic_recorder, loop_data, mic_data, tsVars,
                   faultVars, submits, orchPc, running, paused, q, payload, reads,
                   drvVars, diskVars, callback_calls, faults, histVars>>

\* loop_recorder.record (line 159) raises: caught at line 173, the flag is
\* cleared and the thread's function returns.
RecReadFails ==
    /\ recPc = "record"
    /\ recPc' = "exited"
    /\ running' = FALSE
    /\ rec_error' = "read"
    /\ UNCHANGED <<apiVars, archives, synthVars, sessions, cfgVars, selVars, mix_mic, mic_recorder, loop_data, mic_data, tsVars,
                   faultVars, submits, orchPc, paused, q, payload, reads, drvVars,
                   diskVars, callback_calls, faults, histVars>>

\* The primary read returns and mic_recorder.record (line 163) raises: caught
\* at line 165, mixing is switched off and the primary batch is delivered.
RecMicReadFails ==
    /\ recPc = "record"
    /\ reads < MaxBatches
    /\ mix_mic /\ mic_recorder
    /\ reads' = reads + 1
    /\ recPc' = "check"
    /\ mix_mic' = FALSE
    /\ loop_data' = <<>>
    /\ mic_data' = <<>>
    /\ \E b \in BatchSet :
          IF paused
          THEN UNCHANGED <<q, puts>>
          ELSE /\ q' = QueuePut(q, [no |-> puts + 1, data |-> b])
               /\ puts' = puts + 1
    /\ UNCHANGED <<apiVars, archives, synthVars, sessions, cfgVars, selVars, mic_recorder, rec_error, tsVars, faultVars, submits,
                   orchPc, running, paused, payload, drvVars, diskVars,
                   callback_calls, faults, gets, lastGot, segBatches, cutKind,
                   dispatchNo, silentRun, callsInRun, lastSeg, trailingAtStop,
                   evalAfterStop>>

\* ------------------------------------------------------------- driver
\* Lines 216-223: the tail window exists and its peak is below the threshold.
TailSilent(buf) ==
    /\ Len(buf) >= SilenceCheckSamples
    /\ MaxAbs(LastK(buf, SilenceCheckSamples)) < silence_threshold

\* Mutant of CutDecision: the min_duration test is missing.
CutDecisionNoMin(buf) ==
    IF BufferDuration(buf) >= max_duration THEN "force"
    ELSE IF TailSilent(buf) THEN "silence" ELSE "none"

\* Mutant of CutDecision: the forced cut also waits for a silent tail.
CutDecisionSilenceOnly(buf) ==
    IF BufferDuration(buf) >= min_duration /\ TailSilent(buf)
    THEN IF BufferDuration(buf) >= max_duration THEN "force" ELSE "silence"
    ELSE "none"

\* Mutant of CutDecision: the forced cut needs d > max_duration.
CutDecisionStrictMax(buf) ==
    IF BufferDuration(buf) >= min_duration
    THEN IF BufferDuration(buf) > max_duration THEN "force"
         ELSE IF TailSilent(buf) THEN "silence" ELSE "none"
    ELSE "none"

\* Lines 203-225: what one evaluation of the state machine decides.
CutDecision(buf) ==
    IF BufferDuration(buf) >= min_duration
    THEN IF BufferDuration(buf) >= max_duration THEN "force"
         ELSE IF TailSilent(buf) THEN "silence" ELSE "none"
    ELSE "none"

\* Line 118: the whole segment is silent.
ChunkSilent(buf) == MaxAbs(buf) < silence_chunk_threshold

\* Mutant of AutoStopReached: the count must exceed the limit.
AutoStopReachedStrict(count, limit) == count > limit

\* Line 122: the silent-segment count has reached the auto-stop limit.
AutoStopReached(count, limit) == count >= limit

\* The positions of the driver inside transcribe_buffer.
DispatchPcs ==
    {"tb_check", "tb_archive", "tb_resample", "tb_transcribe",
     "tb_write_raw", "tb_write_logseq", "tb_clear"}

\* What the properties call a silent segment: every sample below the
\* auto-stop threshold in absolute value.
SegmentSilent(seg) ==
    \A i \in 1..Len(seg) : seg[i] < silence_chunk_threshold /\ -seg[i] < silence_chunk_threshold

\* `while not self.queue.empty(): data = get_nowait(); buffer = concatenate`.
DrvDrainGet ==
    /\ drvPc = "drain"
    /\ q /= <<>>
    /\ buffer' = Concatenate(buffer, QueueFront(q).data)
    /\ q' = QueueRest(q)
    /\ gets' = gets + 1
    /\ lastGot' = QueueFront(q).no
    /\ segBatches' = Append(segBatches, QueueFront(q).data)
    /\ UNCHANGED <<extVars, tsVars, faultVars, submits, orchPc, running, paused, recPc, payload, reads, drvPc,
                   silent_chunks_count, max_silent_chunks, chunk_counter,
                   diskVars, callback_calls, faults, puts, cutKind,
                   dispatchNo, silentRun, callsInRun, lastSeg, trailingAtStop, evalAfterStop>>

\* The queue is found empty, the drain loop ends, and lines 203-225 evaluate
\* the state machine once; a cut calls transcribe_buffer.
DrvEval ==
    /\ drvPc = "drain"
    /\ q = <<>>
    /\ cutKind' = CutDecision(buffer)
    /\ drvPc' = IF CutDecision(buffer) = "none" THEN "sleep" ELSE "tb_check"
    /\ evalAfterStop' =
          (evalAfterStop \/ (trailingAtStop /\ orchPc \in {"joining", "grace"}))
    /\ UNCHANGED <<extVars, tsVars, faultVars, submits, orchPc, recVars, buffer, silent_chunks_count,
                   max_silent_chunks, chunk_counter, diskVars, callback_calls,
                   faults, puts, gets, lastGot, segBatches, dispatchNo,
                   silentRun, callsInRun, lastSeg, trailingAtStop>>

\* time.sleep(0.1) at the end of an iteration, or time.sleep(1) in the
\* loop's exception handler: the next iteration starts.
DrvSleep ==
    /\ drvPc \in {"sleep", "error_sleep"}
    /\ drvPc' = "drain"
    /\ failures' = {}
    /\ UNCHANGED <<extVars, tsVars, submits, orchPc, recVars, buffer, silent_chunks_count,
                   max_silent_chunks, chunk_counter, diskVars, callback_calls,
                   faults, histVars>>

\* ------------------------------------------------- transcribe_buffer
\* Mutant of NextSilentCount: a loud segment leaves the counter alone.
NextSilentCountNoReset(count, buf) == IF ChunkSilent(buf) THEN count + 1 ELSE count

\* Lines 118-131: the counter after the auto-stop check of segment buf.
NextSilentCount(count, buf) == IF ChunkSilent(buf) THEN count + 1 ELSE 0

\* Lines 111-131: empty-buffer return, peak, auto-stop check.  On auto-stop
\* the buffer is cleared, the callback is invoked and the call returns.
TbCheck ==
    /\ drvPc = "tb_check"
    /\ IF Len(buffer) = 0
          THEN /\ drvPc' = "sleep"
               /\ UNCHANGED <<buffer, silent_chunks_count, callback_calls,
                              segBatches, dispatchNo, silentRun,
                              callsInRun, lastSeg, submits, archives>>
          ELSE /\ silent_chunks_count' = NextSilentCount(silent_chunks_count, buffer)
               /\ dispatchNo' = dispatchNo + 1
               /\ silentRun' = IF SegmentSilent(buffer) THEN silentRun + 1 ELSE 0
               /\ lastSeg' = IF SegmentSilent(buffer) THEN "silent" ELSE "loud"
               /\ IF /\ ChunkSilent(buffer)
                     /\ AutoStopReached(silent_chunks_count', max_silent_chunks)
                     THEN /\ buffer' = <<>>
                          /\ segBatches' = <<>>
                          /\ callback_calls' = callback_calls + 1
                          /\ callsInRun' = callsInRun + 1
                          /\ submits' = 0
                          /\ archives' = 0
                          /\ drvPc' = "sleep"
                     ELSE /\ drvPc' = "tb_archive"
                          /\ callsInRun' = IF SegmentSilent(buffer) THEN callsInRun ELSE 0
                          /\ UNCHANGED <<buffer, segBatches, callback_calls, submits, archives>>
    /\ UNCHANGED <<sysVars, tsVars, faultVars, orchPc, recVars, max_silent_chunks, chunk_counter, diskVars,
                   faults, puts, gets, lastGot, cutKind, trailingAtStop,
                   evalAfterStop>>

\* Mutant of TbArchive: the counter is incremented and no file is written.
TbArchiveWritesNothing ==
    /\ drvPc = "tb_archive"
    /\ chunk_counter' = chunk_counter + 1
    /\ drvPc' = "tb_resample"
    /\ UNCHANGED <<extVars, tsVars, faultVars, submits, orchPc, recVars, buffer,
                   silent_chunks_count, max_silent_chunks, diskVars,
                   callback_calls, faults, histVars>>

\* save_audio_chunk: the counter is incremented, then the file is written.
TbArchive ==
    /\ drvPc = "tb_archive"
    /\ chunk_counter' = chunk_counter + 1
    /\ audio_files' = audio_files \cup {chunk_counter'}
    /\ archives' = archives + 1
    /\ drvPc' = "tb_resample"
    /\ UNCHANGED <<sysVars, tsVars, faultVars, submits, orchPc, recVars, buffer, silent_chunks_count,
                   max_silent_chunks, transcript_raw, transcript_logseq,
                   callback_calls, faults, histVars>>

\* Mutant of TbArchiveFails: the exception ends the driver thread.
TbArchiveFailsEndsLoop ==
    /\ drvPc = "tb_archive"
    /\ faults < MaxFaults
    /\ faults' = faults + 1
    /\ chunk_counter' = chunk_counter + 1
    /\ drvPc' = "terminated"
    /\ failures' = failures \cup {Failure("archive", dispatchNo)}
    /\ UNCHANGED <<extVars, tsVars, submits, orchPc, recVars, buffer, silent_chunks_count,
                   max_silent_chunks, diskVars, callback_calls, histVars>>

\* save_audio_chunk when sf.write raises: logged inside save_audio_chunk.
TbArchiveFails ==
    /\ drvPc = "tb_archive"
    /\ faults < MaxFaults
    /\ faults' = faults + 1
    /\ chunk_counter' = chunk_counter + 1
    /\ drvPc' = "tb_resample"
    /\ failures' = failures \cup {Failure("archive", dispatchNo)}
    /\ UNCHANGED <<extVars, tsVars, submits, orchPc, recVars, buffer, silent_chunks_count,
                   max_silent_chunks, diskVars, callback_calls, histVars>>

\* Lines 136-145: resample to the target rate, load the prompt.
TbResample ==
    /\ drvPc = "tb_resample"
    /\ drvPc' = "tb_transcribe"
    /\ UNCHANGED <<extVars, tsVars, faultVars, submits, orchPc, recVars, buffer, silent_chunks_count,
                   max_silent_chunks, chunk_counter, diskVars, callback_calls,
                   faults, histVars>>

\* scipy.signal.resample raises: line 139 is outside the try block, so the
\* exception leaves transcribe_buffer and is caught by process_audio (229).
TbResampleFails ==
    /\ drvPc = "tb_resample"
    /\ faults < MaxFaults
    /\ faults' = faults + 1
    /\ drvPc' = "error_sleep"
    /\ failures' = failures \cup {Failure("resample", dispatchNo)}
    /\ UNCHANGED <<extVars, tsVars, submits, orchPc, recVars, buffer, silent_chunks_count,
                   max_silent_chunks, chunk_counter, diskVars, callback_calls,
                   histVars>>

\* Lines 148-162: the transcription call, the concatenated text and, when
\* it is not empty, the one reading of the clock.
TbTranscribe ==
    /\ drvPc = "tb_transcribe"
    /\ \E text \in {"text", ""} :
          /\ text_accumulated' = text
          /\ timestamp' = IF text /= "" THEN Timestamp(now) ELSE timestamp
          /\ drvPc' = IF text /= "" THEN "tb_write_raw" ELSE "tb_clear"
    /\ submits' = submits + 1
    /\ UNCHANGED <<extVars, now, faultVars, orchPc, recVars, buffer, silent_chunks_count,
                   max_silent_chunks, chunk_counter, diskVars, callback_calls,
                   faults, histVars>>

\* Mutant of TbTranscribeFails: the exception leaves transcribe_buffer and
\* the buffer is kept.
TbTranscribeFailsKeepsBuffer ==
    /\ drvPc = "tb_transcribe"
    /\ faults < MaxFaults
    /\ faults' = faults + 1
    /\ drvPc' = "error_sleep"
    /\ failures' = failures \cup {Failure("transcribe", dispatchNo)}
    /\ submits' = submits + 1
    /\ UNCHANGED <<extVars, tsVars, orchPc, recVars, buffer, silent_chunks_count,
                   max_silent_chunks, chunk_counter, diskVars, callback_calls,
                   histVars>>

\* model.transcribe (or iterating its segments) raises: caught at line 182.
TbTranscribeFails ==
    /\ drvPc = "tb_transcribe"
    /\ faults < MaxFaults
    /\ faults' = faults + 1
    /\ drvPc' = "tb_clear"
    /\ failures' = failures \cup {Failure("transcribe", dispatchNo)}
    /\ submits' = submits + 1
    /\ UNCHANGED <<extVars, tsVars, orchPc, recVars, buffer, silent_chunks_count,
                   max_silent_chunks, chunk_counter, diskVars, callback_calls,
                   histVars>>

\* Mutant of TbWriteRaw: the record is put in front of the earlier ones.
TbWriteRawAtFront ==
    /\ drvPc = "tb_write_raw"
    /\ transcript_raw' =
          <<[seg |-> dispatchNo, line |-> RawLine(timestamp, text_accumulated)]>>
          \o transcript_raw
    /\ drvPc' = "tb_write_logseq"
    /\ UNCHANGED <<extVars, tsVars, faultVars, submits, orchPc, recVars, buffer,
                   silent_chunks_count, max_silent_chunks, chunk_counter,
                   audio_files, transcript_logseq, callback_calls, faults,
                   histVars>>

\* Lines 167-171: the record is appended to the raw transcript.
TbWriteRaw ==
    /\ drvPc = "tb_write_raw"
    /\ transcript_raw' = Append(transcript_raw,
            [seg |-> dispatchNo, line |-> RawLine(timestamp, text_accumulated)])
    /\ drvPc' = "tb_write_logseq"
    /\ UNCHANGED <<extVars, tsVars, faultVars, submits, orchPc, recVars, buffer, silent_chunks_count,
                   max_silent_chunks, chunk_counter, audio_files,
                   transcript_logseq, callback_calls, faults, histVars>>

\* Lines 174-178: the record is appended to the structured notes.
TbWriteLogseq ==
    /\ drvPc = "tb_write_logseq"
    /\ transcript_logseq' = Append(transcript_logseq,
            [seg |-> dispatchNo, line |-> LogseqLine(timestamp, text_accumulated)])
    /\ drvPc' = "tb_clear"
    /\ UNCHANGED <<extVars, tsVars, faultVars, submits, orchPc, recVars, buffer, silent_chunks_count,
                   max_silent_chunks, chunk_counter, audio_files,
                   transcript_raw, callback_calls, faults, histVars>>

\* The append to either transcript file raises, at open()/write() with
\* nothing written or at flush()/fsync() with the line already in the file:
\* caught at line 182, the rest of the try block is skipped.
TbWriteFails ==
    /\ drvPc \in {"tb_write_raw", "tb_write_logseq"}
    /\ faults < MaxFaults
    /\ faults' = faults + 1
    /\ drvPc' = "tb_clear"
    /\ \E written \in BOOLEAN :
          /\ failures' = failures \cup
                {Failure(IF drvPc = "tb_write_raw"
                            THEN (IF written THEN "fsync_raw" ELSE "write_raw")
                            ELSE (IF written THEN "fsync_logseq" ELSE "write_logseq"),
                         dispatchNo)}
          /\ transcript_raw' =
                IF written /\ drvPc = "tb_write_raw"
                THEN Append(transcript_raw,
                        [seg |-> dispatchNo, line |-> RawLine(timestamp, text_accumulated)])
                ELSE transcript_raw
          /\ transcript_logseq' =
                IF written /\ drvPc = "tb_write_logseq"
                THEN Append(transcript_logseq,
                        [seg |-> dispatchNo, line |-> LogseqLine(timestamp, text_accumulated)])
                ELSE transcript_logseq
    /\ UNCHANGED <<extVars, tsVars, submits, orchPc, recVars, buffer, silent_chunks_count,
                   max_silent_chunks, chunk_counter, audio_files, callback_calls,
                   histVars>>

\* Line 186: the buffer is cleared and transcribe_buffer returns; its locals
\* cease to exist.
TbClear ==
    /\ drvPc = "tb_clear"
    /\ buffer' = <<>>
    /\ segBatches' = <<>>
    /\ submits' = 0
    /\ archives' = 0
    /\ timestamp' = NoTimestamp
    /\ text_accumulated' = ""
    /\ failures' = {}
    /\ drvPc' = "sleep"
    /\ UNCHANGED <<sysVars, now, orchPc, recVars, silent_chunks_count, max_silent_chunks,
                   chunk_counter, diskVars, callback_calls, faults, puts, gets,
                   lastGot, cutKind, dispatchNo, silentRun, callsInRun,
                   lastSeg, trailingAtStop, evalAfterStop>>

\* ------------------------------------------------------ specification
Next ==
    \/ OrchStartRecording \/ OrchStartTranscriber
    \/ OrchStopRecording \/ OrchJoinReturns \/ OrchGraceElapsed
    \/ RecOpen \/ RecCheck \/ RecReadDeliver
    \/ DrvDrainGet \/ DrvEval \/ DrvSleep
    \/ TbCheck \/ TbArchive \/ TbArchiveFails \/ TbResample \/ TbResampleFails
    \/ TbTranscribe \/ TbTranscribeFails \/ TbWriteRaw \/ TbWriteLogseq
    \/ TbWriteFails \/ TbClear

Spec == Init /\ [][Next]_vars

\* ------------------------------------------- the session with pauses
\* AudioRecorder.pause(), called by ScribeProGUI.pause_recording while a
\* recording is on and not paused.
Pause ==
    /\ orchPc = "recording"
    /\ ~paused
    /\ paused' = TRUE
    /\ UNCHANGED <<extVars, orchPc, running, q, recPc, payload, reads, drvVars, diskVars,
                   callback_calls, faults, histVars, tsVars, faultVars, submits>>

\* AudioRecorder.resume(), called by ScribeProGUI.resume_recording.
Resume ==
    /\ orchPc = "recording"
    /\ paused
    /\ paused' = FALSE
    /\ UNCHANGED <<extVars, orchPc, running, q, recPc, payload, reads, drvVars, diskVars,
                   callback_calls, faults, histVars, tsVars, faultVars, submits>>

\* Line 171, `if not self.paused:`: the capture thread reads the flag.
RecTestPaused ==
    /\ recPc = "deliver"
    /\ recPc' = IF paused THEN "check" ELSE "put"
    /\ payload' = IF paused THEN <<>> ELSE payload
    /\ UNCHANGED <<extVars, orchPc, running, paused, q, reads, drvVars, diskVars,
                   callback_calls, faults, histVars, tsVars, faultVars, submits>>

\* Line 172, `self.q.put(payload)`.  The local payload is not read again
\* before the next read assigns it; the model empties it.
RecPut ==
    /\ recPc = "put"
    /\ recPc' = "check"
    /\ q' = QueuePut(q, [no |-> puts + 1, data |-> payload])
    /\ puts' = puts + 1
    /\ payload' = <<>>
    /\ UNCHANGED <<extVars, orchPc, running, paused, reads, drvVars, diskVars,
                   callback_calls, faults, gets, lastGot, segBatches, cutKind,
                   dispatchNo, silentRun, callsInRun, lastSeg, trailingAtStop,
                   evalAfterStop, tsVars, faultVars, submits>>

\* The session with pause() and resume(): the capture loop reads, tests the
\* flag and puts in three steps; no failure is injected.
NextPause ==
    \/ Pause \/ Resume
    \/ OrchStartRecording \/ OrchStartTranscriber
    \/ OrchStopRecording \/ OrchJoinReturns \/ OrchGraceElapsed
    \/ RecOpen \/ RecCheck \/ RecRead \/ RecTestPaused \/ RecPut
    \/ DrvDrainGet \/ DrvEval \/ DrvSleep
    \/ TbCheck \/ TbArchive \/ TbResample \/ TbTranscribe
    \/ TbWriteRaw \/ TbWriteLogseq \/ TbClear

SpecPause == Init /\ [][NextPause]_vars

\* ------------------------------------------- the session with a clock
\* A second of wall-clock time passes.  The program reads the clock only at
\* line 162, so the passing of time is taken while the driver is between the
\* transcription call and the end of the writes; a tick at any other moment
\* has the effect of a tick at the next transcription call.
Tick ==
    /\ drvPc \in {"tb_transcribe", "tb_write_raw", "tb_write_logseq"}
    /\ now < SessionStart + MaxTicks
    /\ now' = now + 1
    /\ UNCHANGED <<extVars, orchPc, recVars, drvVars, diskVars, callback_calls, faults,
                   histVars, timestamp, text_accumulated, faultVars, submits>>

\* The session while it records: the orchestrator does not stop it, and of
\* the failures only those of the transcript writes are injected.
NextClock ==
    \/ Tick
    \/ OrchStartRecording \/ OrchStartTranscriber
    \/ RecOpen \/ RecCheck \/ RecReadDeliver
    \/ DrvDrainGet \/ DrvEval \/ DrvSleep
    \/ TbCheck \/ TbArchive \/ TbResample \/ TbTranscribe
    \/ TbWriteRaw \/ TbWriteLogseq \/ TbWriteFails \/ TbClear

SpecClock == Init /\ [][NextClock]_vars

\* ------------------------------------------- the driver's parameters
\* dict.get(key, default).
Get(d, key, default) == IF d[key] = Absent THEN default ELSE d[key]

\* The buffer durations (ms) and tail peaks an evaluation is tried on.
EvalDurations == {1000, 2000, 4000}
EvalPeaks == {0, 500}

\* Lines 203-225 with the loaded parameters, for a buffer of duration d
\* whose tail window has peak a: the comparisons in the order the code makes
\* them; comparing a number with a value that is none raises TypeError.
Evaluation(p, d, a) ==
    IF p.min_duration.t /= "num" THEN "type_error"
    ELSE IF d < p.min_duration.v THEN "none"
    ELSE IF p.max_duration.t /= "num" THEN "type_error"
    ELSE IF d >= p.max_duration.v THEN "cut"
    ELSE IF p.silence_duration.t /= "num" THEN "type_error"
    ELSE IF p.silence_threshold.t /= "num" THEN "type_error"
    ELSE IF a < p.silence_threshold.v THEN "cut" ELSE "none"

\* Transcriber.__init__ is about to run on a system with some configuration
\* file; nothing is loaded yet.
InitConfig ==
    /\ orchPc = "constructed"
    /\ Constructed
    /\ SessionCreated
    /\ DefaultDevices
    /\ config_file \in ConfigSources
    /\ vad_config = [k \in PolicyKeys |-> Absent]
    /\ policy = [k \in PolicyKeys |-> Absent]
    /\ cfgPc = "new"

\* Lines 32-33: ConfigManager() loads the file; vad_config is its
\* "transcription" section.
CfgLoad ==
    /\ cfgPc = "new"
    /\ vad_config' = LoadConfig(config_file)
    /\ cfgPc' = "loaded"
    /\ UNCHANGED <<apiVars, archives, synthVars, sessions, config_file, policy, devVars, tsVars, faultVars, submits,
                   orchPc, recVars, drvVars, diskVars, callback_calls, faults,
                   histVars>>

\* Lines 36-45: the six parameters are read from vad_config.
CfgInitPolicy ==
    /\ cfgPc = "loaded"
    /\ policy' = [k \in PolicyKeys |-> Get(vad_config, k, DefaultTranscription[k])]
    /\ cfgPc' = "initialised"
    /\ UNCHANGED <<apiVars, archives, synthVars, sessions, config_file, vad_config, devVars, tsVars, faultVars, submits,
                   orchPc, recVars, drvVars, diskVars, callback_calls, faults,
                   histVars>>

\* One evaluation of the segmentation state machine by process_audio with
\* the loaded parameters; a TypeError is caught at line 229 and the loop
\* sleeps and evaluates again.
CfgEvaluate ==
    /\ cfgPc \in {"initialised", "none", "cut", "type_error"}
    /\ \E d \in EvalDurations, a \in EvalPeaks : cfgPc' = Evaluation(policy, d, a)
    /\ UNCHANGED <<apiVars, archives, synthVars, sessions, config_file, vad_config, policy, devVars, tsVars, faultVars,
                   submits, orchPc, recVars, drvVars, diskVars, callback_calls,
                   faults, histVars>>

NextConfig == CfgLoad \/ CfgInitPolicy \/ CfgEvaluate

SpecConfig == InitConfig /\ [][NextConfig]_vars

\* ---------------------------------------------------------- synthesis
\* What MeetingSynthesizer writes to its output file: the header with the
\* title and the summary, and the notes of one block of the transcript.
SynthHeader == [seg |-> 0, line |-> <<"# ", "title", "\n\n", "summary", "\n\n---\n\n">>]
SynthBlock == [seg |-> 0, line |-> <<"\n## ", "time_range", " Discussion Segment\n\n", "notes">>]

\* synthesis.py 180-184 (app_pro.py 422-429), after the grace delay: the raw
\* transcript is read; with no transcript, or an empty one, synthesis ends.
SynthRead ==
    /\ orchPc = "teardown"
    /\ synthPc = "idle"
    /\ synthPc' = IF transcript_raw = <<>> THEN "done" ELSE "header"
    /\ UNCHANGED <<apiVars, archives, final_notes, devVars, cfgVars, sessions, tsVars, faultVars,
                   submits, orchPc, recVars, drvVars, diskVars, callback_calls,
                   faults, histVars>>

\* synthesis.py 200-204: open(self.output_path, "w"), where output_path is
\* the session's notes_logseq.md: the file is truncated and the header is
\* written.
SynthWriteHeader ==
    /\ synthPc = "header"
    /\ transcript_logseq' = <<SynthHeader>>
    /\ synthPc' = "blocks"
    /\ UNCHANGED <<apiVars, archives, final_notes, devVars, cfgVars, sessions, tsVars, faultVars,
                   submits, orchPc, recVars, drvVars, audio_files, transcript_raw,
                   callback_calls, faults, histVars>>

\* synthesis.py 210-215: the notes of the blocks are appended.
SynthWriteBlocks ==
    /\ synthPc = "blocks"
    /\ transcript_logseq' = Append(transcript_logseq, SynthBlock)
    /\ synthPc' = "rename"
    /\ UNCHANGED <<apiVars, archives, final_notes, devVars, cfgVars, sessions, tsVars, faultVars,
                   submits, orchPc, recVars, drvVars, audio_files, transcript_raw,
                   callback_calls, faults, histVars>>

\* synthesis.py 218-223: os.rename(output_path, final_path) moves the file
\* away, or raises and leaves it.
SynthRename ==
    /\ synthPc = "rename"
    /\ synthPc' = "done"
    /\ \E renamed \in BOOLEAN :
          IF renamed
          THEN /\ final_notes' = transcript_logseq
               /\ transcript_logseq' = <<>>
          ELSE UNCHANGED <<final_notes, transcript_logseq>>
    /\ UNCHANGED <<apiVars, archives, devVars, cfgVars, sessions, tsVars, faultVars, submits, orchPc,
                   recVars, drvVars, audio_files, transcript_raw, callback_calls,
                   faults, histVars>>

\* The session from start to the end of synthesis, no failure injected; the
\* driver thread runs on while synthesis does.
NextSynthesis ==
    \/ OrchStartRecording \/ OrchStartTranscriber
    \/ OrchStopRecording \/ OrchJoinReturns \/ OrchGraceElapsed
    \/ RecOpen \/ RecCheck \/ RecReadDeliver
    \/ DrvDrainGet \/ DrvEval \/ DrvSleep
    \/ TbCheck \/ TbArchive \/ TbResample \/ TbTranscribe
    \/ TbWriteRaw \/ TbWriteLogseq \/ TbClear
    \/ SynthRead \/ SynthWriteHeader \/ SynthWriteBlocks \/ SynthRename

SpecSynthesis == Init /\ [][NextSynthesis]_vars

\* ----------------------------------------------------------- sessions
\* No SessionManager has been created yet.
InitSession ==
    /\ orchPc = "constructed"
    /\ Constructed
    /\ DefaultDevices
    /\ DefaultPolicyLoaded
    /\ sessions = <<>>

\* SessionManager.__init__, called by cli.record_command (line 105) or by
\* ScribeProGUI.start_recording (line 326): the identifier is the clock
\* reading to the second; makedirs(exist_ok=True) accepts a directory that
\* exists.
NewSession ==
    /\ Len(sessions) < MaxSessions
    /\ \E who \in {"cli", "gui"} :
          sessions' = Append(sessions, [session_id |-> SessionId(now), by |-> who])
    /\ UNCHANGED <<apiVars, archives, synthVars, devVars, cfgVars, tsVars, faultVars, submits, orchPc,
                   recVars, drvVars, diskVars, callback_calls, faults, histVars>>

\* A second of wall-clock time passes between two constructions.
SessionTick ==
    /\ now < SessionStart + MaxTicks
    /\ now' = now + 1
    /\ UNCHANGED <<apiVars, archives, synthVars, sessions, devVars, cfgVars, timestamp, text_accumulated,
                   faultVars, submits, orchPc, recVars, drvVars, diskVars,
                   callback_calls, faults, histVars>>

NextSession == NewSession \/ SessionTick

SpecSession == InitSession /\ [][NextSession]_vars

\* AudioRecorder(...) has been constructed with its arguments and
\* select_device() has not been called yet.  The gains are read by
\* _mix_sources alone, so a recorder constructed without mixing is taken
\* with gains of 1.0.
InitSelect ==
    /\ orchPc = "select"
    /\ Constructed
    /\ SessionCreated
    /\ DefaultPolicyLoaded
    /\ mics \in MicLists
    /\ default_speaker \in {Named(<<"S">>), Raises}
    /\ default_microphone \in {Named(<<"U">>), Nothing, Raises}
    /\ loopback_device = NoDevice
    /\ mic_device = NoDevice
    /\ mix_mic \in BOOLEAN
    /\ mix_requested = mix_mic
    /\ mic_device_name \in {<<>>, <<"m">>, <<"H">>}
    /\ mic_gain \in (IF mix_mic THEN GainChoices ELSE {1})
    /\ loopback_gain \in (IF mix_mic THEN GainChoices ELSE {1})
    /\ manual_mode = FALSE
    /\ selected = FALSE

\* select_device(manual_mode): sys.exit(1) when the listing raises or is
\* empty; else the primary device is the default speaker's loopback (auto
\* mode) or the device whose index the user types at the prompt, any device
\* of the list; then, when mixing is on, the secondary device is the named
\* capture device, else the default one, else mixing is switched off.
SelectDevice ==
    /\ orchPc = "select"
    /\ \E manual \in BOOLEAN :
          /\ manual_mode' = manual
          /\ IF mics = ListingFails \/ mics = <<>>
                THEN /\ orchPc' = "exit"
                     /\ UNCHANGED <<loopback_device, mic_device, mix_mic, selected>>
                ELSE \E selection \in 1..Len(mics) :
                        LET auto == IF manual THEN NoDevice
                                    ELSE FindDefaultLoopback(mics, default_speaker)
                            named == FindNamedCapture(mics, mic_device_name)
                            selected_mic ==
                                IF named /= NoDevice THEN named
                                ELSE FindDefaultCapture(mics, default_microphone)
                        IN  /\ loopback_device' =
                                  (IF auto /= NoDevice THEN auto ELSE mics[selection])
                            /\ mic_device' = (IF mix_mic THEN selected_mic ELSE mic_device)
                            /\ mix_mic' = (mix_mic /\ selected_mic /= NoDevice)
                            /\ selected' = TRUE
                            /\ orchPc' = "constructed"
    /\ UNCHANGED <<apiVars, archives, synthVars, sessions, cfgVars, mics, default_speaker, default_microphone, mic_device_name,
                   mic_gain, loopback_gain, mix_requested, mic_recorder,
                   rec_error, loop_data, mic_data, tsVars, faultVars, submits, recVars, drvVars,
                   diskVars, callback_calls, faults, histVars>>

\* Selection, and the start of the capture loop up to its first read.
NextSelect ==
    \/ SelectDevice
    \/ OrchStartRecording \/ OrchStartTranscriber
    \/ RecOpen \/ RecCheck

SpecSelect == InitSelect /\ [][NextSelect]_vars

\* ------------------------------------- the session with its devices
\* The recorder after select_device(): the primary device is the default
\* speaker's loopback; with mixing, the secondary device is a microphone.
InitDevice ==
    /\ orchPc = "constructed"
    /\ Constructed
    /\ SessionCreated
    /\ DefaultPolicyLoaded
    /\ mics = <<LoopS, MicM>>
    /\ default_speaker = Named(<<"S">>)
    /\ default_microphone = Named(<<"M">>)
    /\ loopback_device = LoopS
    /\ mix_mic \in BOOLEAN
    /\ mix_requested = mix_mic
    /\ mic_device = (IF mix_mic THEN MicM ELSE NoDevice)
    /\ mic_device_name = <<>>
    /\ mic_gain \in (IF mix_mic THEN GainChoices ELSE {1})
    /\ loopback_gain \in (IF mix_mic THEN GainChoices ELSE {1})
    /\ manual_mode = FALSE
    /\ selected = TRUE

\* The recorder from start_recording() to stop_recording(), with the
\* failures of its two streams; the driver is started and its steps are
\* left out.
NextDevice ==
    \/ OrchStartRecording \/ OrchStartTranscriber
    \/ OrchStopRecording \/ OrchJoinReturns \/ OrchGraceElapsed
    \/ RecOpen \/ RecOpenFails \/ RecMicOpenFails
    \/ RecCheck \/ RecReadDeliver \/ RecReadFails \/ RecMicReadFails

SpecDevice == InitDevice /\ [][NextDevice]_vars

\* The recorder without mixing, from start_recording() to stop_recording(),
\* under the scheduling the threads rely on: the timeout of join() expires,
\* and a capture thread that is not inside a device call runs on.  The
\* device calls (open, read) are under no such assumption: each may never
\* return.
InitPrimaryOnly == InitDevice /\ ~mix_mic

NextPrimaryOnly ==
    \/ OrchStartRecording \/ OrchStartTranscriber
    \/ OrchStopRecording \/ OrchJoinReturns \/ OrchGraceElapsed
    \/ RecOpen \/ RecOpenFails
    \/ RecCheck \/ RecReadDeliver \/ RecReadFails

SpecDeviceFair ==
    /\ InitPrimaryOnly
    /\ [][NextPrimaryOnly]_vars
    /\ WF_vars(OrchJoinReturns)
    /\ WF_vars(RecCheck)

\* ------------------------------------------------------------ claims
\* Vocabulary of the properties, stated on samples rather than through the
\* driver's own helpers.
ReachedMin(buf) == Len(buf) * 1000 >= min_duration * native_sample_rate
ReachedMax(buf) == Len(buf) * 1000 >= max_duration * native_sample_rate

TailWindow(buf) ==
    { i \in 1..Len(buf) : i > Len(buf) - (silence_duration * native_sample_rate) \div 1000 }

TailBelowThreshold(buf) ==
    \A i \in TailWindow(buf) : buf[i] < silence_threshold /\ -buf[i] < silence_threshold

RECURSIVE Flatten(_)
Flatten(batches) ==
    IF batches = <<>> THEN <<>> ELSE Head(batches) \o Flatten(Tail(batches))

RECURSIVE SumLen(_)
SumLen(batches) ==
    IF batches = <<>> THEN 0 ELSE Len(Head(batches)) + SumLen(Tail(batches))

\* The driver takes the step that leaves transcribe_buffer.
DispatchEnds == drvPc \in DispatchPcs /\ drvPc' \notin DispatchPcs

\* The driver takes the step that evaluates the state machine.
Evaluates == drvPc = "drain" /\ drvPc' /= "drain"

\* C1: when the session was stopped with a non-empty buffer shorter than
\* min_duration, the capture loop has exited, the queue is drained and the
\* driver has evaluated the buffer during the grace delay, that trailing
\* buffer is not left undispatched at teardown.
C1_TrailingBufferFlushed ==
    (/\ orchPc = "teardown"
     /\ recPc = "exited"
     /\ q = <<>>
     /\ drvPc = "sleep"
     /\ trailingAtStop
     /\ evalAfterStop)
    => ~(Len(buffer) > 0 /\ ~ReachedMin(buffer))

\* C2: the k-th batch the driver dequeues is the k-th batch the capture loop
\* enqueued, and the queue holds the batches not yet dequeued in put order:
\* the appended batches are a prefix of the enqueued ones, none skipped, none
\* appended twice.
C2_FifoOrder ==
    /\ lastGot = gets
    /\ gets + Len(q) = puts
    /\ \A i \in 1..Len(q) : q[i].no = gets + i

C2_Witness == gets >= 2 /\ Len(q) >= 1 /\ drvPc = "tb_transcribe"

\* C3: the buffer is exactly the concatenation of the batches dequeued since
\* the last reset, so its sample count is the sum of their sample counts and
\* the duration used for cut decisions is that sum over the sample rate.
C3_BufferIsSumOfBatches ==
    /\ buffer = Flatten(segBatches)
    /\ Len(buffer) = SumLen(segBatches)
    /\ BufferDuration(buffer) * native_sample_rate = SumLen(segBatches) * 1000

C3_Witness == Len(segBatches) >= 2 /\ dispatchNo >= 1 /\ drvPc = "drain"

\* C4: a dispatch started by the loop starts with d >= min_duration.
C4_NoDispatchBelowMin == drvPc = "tb_check" => ReachedMin(buffer)

\* A non-empty buffer below min_duration was evaluated and left alone.
C4_Witness ==
    /\ drvPc = "sleep"
    /\ cutKind = "none"
    /\ Len(buffer) > 0
    /\ ~ReachedMin(buffer)

\* C5: an evaluation with min_duration <= d < max_duration dispatches exactly
\* when the tail window's peak is below silence_amplitude_threshold, and the
\* dispatch it starts leaves d = 0.
C5_CutRule ==
    (Evaluates /\ ReachedMin(buffer) /\ ~ReachedMax(buffer))
    => (drvPc' = "tb_check" <=> TailBelowThreshold(buffer))

C5_ResetAfterCut ==
    (DispatchEnds /\ cutKind = "silence") => Len(buffer') = 0

C5_HuntingCut == [][C5_CutRule /\ C5_ResetAfterCut]_vars

\* The part of C5 the code keeps: the cut rule alone.
C5_CutRuleHolds == [][C5_CutRule]_vars

TailNeverSilent ==
    \A k \in 1..Len(segBatches) :
        ~TailBelowThreshold(Flatten(SubSeq(segBatches, 1, k)))

\* C7 as stated: a forced dispatch of a never-silent stream holds no batch
\* beyond the one that first made d >= max_duration.
C7_NoBatchBeyondCrossing ==
    (/\ drvPc = "tb_check"
     /\ cutKind = "force"
     /\ faults = 0
     /\ TailNeverSilent)
    => ~ReachedMax(Flatten(SubSeq(segBatches, 1, Len(segBatches) - 1)))

\* C7 as amended: the loop never reaches its inter-iteration sleep with
\* d >= max_duration; the forced dispatch starts in the iteration whose drain
\* brought d to max_duration or above.
C7_ForceCutInCrossingIteration == drvPc = "sleep" => ~ReachedMax(buffer)

\* A forced dispatch of a never-silent stream that holds a batch beyond the
\* one that first made d >= max_duration.
C7_Witness ==
    /\ drvPc = "tb_check"
    /\ cutKind = "force"
    /\ TailNeverSilent
    /\ ReachedMax(Flatten(SubSeq(segBatches, 1, Len(segBatches) - 1)))

\* C8: every dispatch leaves the buffer empty when it finishes.
C8_DispatchClearsBuffer == [][DispatchEnds => Len(buffer') = 0]_vars

\* C9: in a run of consecutive silent dispatched segments that starts at the
\* session start or after a loud segment, the callback is not invoked during
\* the first N-1 dispatches and is invoked exactly once by the Nth, for
\* N = max_silent_chunks.
C9_AutoStopOnNth ==
    /\ silentRun < max_silent_chunks => callsInRun = 0
    /\ silentRun = max_silent_chunks => callsInRun = 1

C9_Witness ==
    /\ max_silent_chunks = 2
    /\ silentRun = 2
    /\ callsInRun = 1
    /\ callback_calls = 1

\* C10: after the dispatch of a segment whose peak is at or above
\* silence_chunk_amplitude_threshold the consecutive-silent counter is 0.
C10_LoudSegmentResetsCounter == lastSeg = "loud" => silent_chunks_count = 0

\* A loud segment dispatched after a silent one had raised the counter (and,
\* with max_silent_chunks = 1, had invoked the callback).
C10_Witness ==
    /\ lastSeg = "loud"
    /\ callback_calls >= 1
    /\ dispatchNo = 2

\* C11: over the life of one Transcriber the auto-stop callback is invoked
\* at most once, whatever is dispatched after its first invocation.
C11_CallbackAtMostOnce == callback_calls <= 1

\* The dispatch whose auto-stop check brings the consecutive-silent counter
\* from below max_silent_chunks to max_silent_chunks.
ReachesAutoStop ==
    /\ drvPc = "tb_check"
    /\ Len(buffer) > 0
    /\ silent_chunks_count < max_silent_chunks
    /\ silent_chunks_count' = max_silent_chunks

\* C12: the dispatch that makes the counter reach max_silent_chunks ends in
\* that step with the buffer discarded: it does not go on to the archive or
\* the transcription call, the archive counter and the archive directory
\* are unchanged, and neither transcript gets a record.
C12_AutoStopDiscards ==
    [][ReachesAutoStop
       => /\ drvPc' \notin DispatchPcs
          /\ buffer' = <<>>
          /\ chunk_counter' = chunk_counter
          /\ audio_files' = audio_files
          /\ submits' = 0
          /\ transcript_raw' = transcript_raw
          /\ transcript_logseq' = transcript_logseq]_vars

\* The second dispatch of a session reached the limit of two: the first,
\* silent too, was archived as chunk 1; the second left no trace.
C12_Witness ==
    /\ max_silent_chunks = 2
    /\ silent_chunks_count = 2
    /\ dispatchNo = 2
    /\ callback_calls = 1
    /\ chunk_counter = 1
    /\ audio_files = {1}
    /\ buffer = <<>>
    /\ drvPc = "sleep"

\* The positions of a dispatch from the transcription call on.
FromTranscribePcs ==
    {"tb_transcribe", "tb_write_raw", "tb_write_logseq", "tb_clear"}

\* C13 as stated: whenever a dispatch stands at or after the transcription
\* call, the archive file of its segment (number chunk_counter) is on disk,
\* and no step removes an archive file, whatever the transcription returns.
C13_ArchivedBeforeTranscription ==
    [][/\ drvPc' \in FromTranscribePcs => chunk_counter' \in audio_files'
       /\ audio_files \subseteq audio_files']_vars

\* C13 as amended: save_audio_chunk has been called once for every dispatch
\* that did not trigger auto-stop before its transcription call is made;
\* the file of the segment is on disk exactly when its write did not fail;
\* and no step removes an archive file.
C13_ArchiveAttemptedBeforeTranscription ==
    [][/\ drvPc' \in FromTranscribePcs
          => /\ chunk_counter' = dispatchNo' - callback_calls'
             /\ chunk_counter' \in audio_files'
                  <=> Failure("archive", dispatchNo') \notin failures'
       /\ audio_files \subseteq audio_files']_vars

\* A silent segment below the auto-stop count was archived as chunk 1 and
\* its transcription failed; the file is there when the dispatch ends.
C13_Witness ==
    /\ max_silent_chunks = 2
    /\ drvPc = "tb_clear"
    /\ dispatchNo = 1
    /\ SegmentSilent(buffer)
    /\ failures = {Failure("transcribe", 1)}
    /\ audio_files = {1}

\* C14: the archive file numbers on disk are consecutive from 1: with k
\* files on disk the numbers are exactly 1..k, none skipped.
C14_ArchiveNumbersConsecutive == audio_files = 1..Cardinality(audio_files)

\* Reading a transcript line back: the timestamp and the text it carries.
LineTimestamp(line) == line[2]
LineText(line) == line[4]

\* The stream holds a record written by dispatch number seg.
HasRecordOf(stream, seg) == \E i \in 1..Len(stream) : stream[i].seg = seg

\* Failures of kind kind so far.
FailuresOfKind(kind) == { f \in failures : f.kind = kind }

\* Record i of the structured stream and record j of the raw stream come
\* from the same dispatch and carry the same timestamp and the same text.
SameRecord(i, j) ==
    /\ transcript_logseq[i].seg = transcript_raw[j].seg
    /\ LineTimestamp(transcript_logseq[i].line) = LineTimestamp(transcript_raw[j].line)
    /\ LineText(transcript_logseq[i].line) = LineText(transcript_raw[j].line)

\* C15 as stated: at the end of a dispatch each stream holds a record of it
\* exactly when its text is not empty; the i-th records of the two streams
\* carry the same timestamp and text; between dispatches the two streams
\* hold the same number of records.
C15_StreamsInStep ==
    /\ drvPc = "tb_clear"
          => /\ HasRecordOf(transcript_raw, dispatchNo) <=> text_accumulated /= ""
             /\ HasRecordOf(transcript_logseq, dispatchNo) <=> text_accumulated /= ""
    /\ \A i \in 1..Len(transcript_logseq) :
          i <= Len(transcript_raw) /\ SameRecord(i, i)
    /\ drvPc \notin DispatchPcs => Len(transcript_raw) = Len(transcript_logseq)

\* The raw record of the dispatch under way reached the file and its
\* structured record did not: the raw append failed after its write, or the
\* structured append failed before its write.
RawOnly ==
    FailuresOfKind("fsync_raw") \cup FailuresOfKind("write_logseq") /= {}

\* The raw records that have no structured record of the same dispatch.
RawWithoutLogseq ==
    { i \in 1..Len(transcript_raw) :
        ~HasRecordOf(transcript_logseq, transcript_raw[i].seg) }

\* C15 as amended: a dispatch writes only when its text is not empty, the
\* raw record first; a failure of the raw append skips the structured one.
\* Every structured record has a raw record of the same dispatch with the
\* same timestamp and text, no dispatch has two records in a stream, the raw
\* stream is never the shorter one, and as long as no append has failed the
\* two streams hold the same records.
C15_StreamsInStepUnlessWriteFails ==
    /\ drvPc = "tb_clear"
          => /\ HasRecordOf(transcript_raw, dispatchNo)
                  <=> /\ text_accumulated /= ""
                      /\ Failure("write_raw", dispatchNo) \notin failures
             /\ HasRecordOf(transcript_logseq, dispatchNo)
                  <=> /\ HasRecordOf(transcript_raw, dispatchNo)
                      /\ ~RawOnly
    /\ \A i \in 1..Len(transcript_logseq) :
          \E j \in 1..Len(transcript_raw) : SameRecord(i, j)
    /\ \A i, j \in 1..Len(transcript_raw) :
          transcript_raw[i].seg = transcript_raw[j].seg => i = j
    /\ \A i, j \in 1..Len(transcript_logseq) :
          transcript_logseq[i].seg = transcript_logseq[j].seg => i = j
    /\ drvPc \notin DispatchPcs
          => /\ Len(transcript_raw) =
                   Len(transcript_logseq) + Cardinality(RawWithoutLogseq)
             /\ Cardinality(RawWithoutLogseq) <= faults
    /\ faults = 0 => \A i \in 1..Len(transcript_logseq) : SameRecord(i, i)

\* A dispatch has written both records, stamped with the second the session
\* started, although the clock moved on before the writes were over.
C15_Witness ==
    /\ drvPc = "tb_clear"
    /\ faults = 0
    /\ Len(transcript_raw) = 1
    /\ Len(transcript_logseq) = 1
    /\ LineTimestamp(transcript_logseq[1].line) = Timestamp(SessionStart)
    /\ LineText(transcript_logseq[1].line) = "text"
    /\ now > SessionStart

\* C16: a dispatch whose transcription call failed ends with the buffer
\* cleared and gets no record in either stream; the audio in the buffer has
\* been submitted to the transcription service at most once, and not at all
\* while the driver is anywhere before the transcription call.
C16_FailedSegmentDropped ==
    [][/\ (DispatchEnds /\ Failure("transcribe", dispatchNo) \in failures)
           => buffer' = <<>> /\ segBatches' = <<>>
       /\ \A f \in FailuresOfKind("transcribe") :
             /\ ~HasRecordOf(transcript_raw', f.seg)
             /\ ~HasRecordOf(transcript_logseq', f.seg)
       /\ submits' <= 1
       /\ drvPc' \notin {"tb_write_raw", "tb_write_logseq", "tb_clear"}
             => submits' = 0]_vars

\* Segment 1 was transcribed and written; the transcription of segment 2
\* has just failed after its one call, and segment 2 has no record.
C16_Witness ==
    /\ failures = {Failure("transcribe", 2)}
    /\ dispatchNo = 2
    /\ drvPc = "tb_clear"
    /\ submits = 1
    /\ Len(buffer) > 0
    /\ Len(transcript_raw) = 1
    /\ Len(transcript_logseq) = 1

\* Failures of the archive write and of the transcript appends.
IOFailureKinds ==
    {"archive", "write_raw", "fsync_raw", "write_logseq", "fsync_logseq"}

\* The positions of the running driver loop.
LoopPcs == {"drain", "sleep", "error_sleep"} \cup DispatchPcs

\* A step of the driver loop other than an injected failure.
DriverStep ==
    \/ DrvDrainGet \/ DrvEval \/ DrvSleep
    \/ TbCheck \/ TbArchive \/ TbResample \/ TbTranscribe
    \/ TbWriteRaw \/ TbWriteLogseq \/ TbClear

\* C17: the driver, once started, is always at a position of its loop, and
\* in a dispatch in which an archive write or a transcript append has
\* failed it has a next step to take: the failure did not end process_audio.
C17_LoopSurvivesIOFailure ==
    /\ drvPc \in LoopPcs \cup {"idle"}
    /\ (\E f \in failures : f.kind \in IOFailureKinds) => ENABLED DriverStep

\* The archive write of segment 1 failed (no chunk 1 on disk); the loop went
\* on to drain all four batches and segment 2 has been archived, transcribed
\* and written.
C17_Witness ==
    /\ faults = 1
    /\ gets = 4
    /\ dispatchNo = 2
    /\ drvPc = "tb_clear"
    /\ chunk_counter = 2
    /\ audio_files = {2}
    /\ Len(transcript_raw) >= 1
    /\ HasRecordOf(transcript_logseq, 2)

\* HH:MM:SS timestamp a is not later than b (the order of the strings).
TsLeq(a, b) ==
    \/ a[1] < b[1]
    \/ a[1] = b[1] /\ a[2] < b[2]
    \/ a[1] = b[1] /\ a[2] = b[2] /\ a[3] <= b[3]

\* The records of a stream are in dispatch order.
InDispatchOrder(stream) ==
    \A i \in 1..Len(stream) - 1 : stream[i].seg < stream[i + 1].seg

\* No record of a stream has an earlier timestamp than the one before it.
TimestampsAscend(stream) ==
    \A i \in 1..Len(stream) - 1 :
        TsLeq(LineTimestamp(stream[i].line), LineTimestamp(stream[i + 1].line))

\* C18 as stated: in each stream the records are in dispatch order and no
\* record's HH:MM:SS timestamp is earlier than that of the record before it.
C18_TimestampOrdered ==
    /\ InDispatchOrder(transcript_raw) /\ TimestampsAscend(transcript_raw)
    /\ InDispatchOrder(transcript_logseq) /\ TimestampsAscend(transcript_logseq)

\* C18 as amended: in each stream the records are in dispatch order, and
\* their timestamps ascend as long as the wall clock has not passed midnight
\* since the session started.
C18_OrderedWithinOneDay ==
    /\ InDispatchOrder(transcript_raw)
    /\ InDispatchOrder(transcript_logseq)
    /\ now < SecondsPerDay
          => TimestampsAscend(transcript_raw) /\ TimestampsAscend(transcript_logseq)

\* Two segments have been written a second apart, both before midnight.
C18_Witness ==
    /\ now < SecondsPerDay
    /\ Len(transcript_raw) = 2
    /\ Len(transcript_logseq) = 2
    /\ LineTimestamp(transcript_raw[1].line) = Timestamp(SessionStart)
    /\ LineTimestamp(transcript_raw[2].line) = Timestamp(SessionStart + 1)

\* C19: no batch is put on the queue while the recorder is paused; a device
\* read can be taken in every state of the running loop, paused or not; and
\* a batch whose test of the flag finds the recorder resumed is enqueued by
\* the loop's next step.
C19_SoftPause ==
    [][/\ paused => puts' = puts
       /\ (recPc = "record" /\ reads < MaxBatches) => ENABLED RecRead
       /\ (recPc = "deliver" /\ recPc' /= "deliver" /\ ~paused) => recPc' = "put"]_vars

\* The part of C19 the code keeps: a batch whose test of the flag finds the
\* recorder paused is dropped, the loop goes back to read the device, and a
\* batch is put only after a test that found the recorder not paused.
C19_PausedTestDrops ==
    [][/\ (recPc = "deliver" /\ recPc' /= "deliver" /\ paused)
          => (recPc' = "check" /\ puts' = puts)
       /\ puts' /= puts => recPc = "put"
       /\ (recPc /= "put" /\ recPc' = "put") => (recPc = "deliver" /\ ~paused)]_vars

\* C20: once stop_recording() has been called no step puts a batch on the
\* queue: the batch of a device read in flight at that moment is dropped.
C20_NoPutAfterStop ==
    [][(orchPc \in {"joining", "grace", "teardown"}) => (puts' = puts)]_vars

\* C21: stop_recording() always returns.  Once it has been called, it
\* returns after a bounded wait even when the capture thread never comes
\* back from the device call it is in.
C21_StopReturns == (orchPc = "joining") ~> (orchPc = "grace")

\* stop_recording() has returned and the capture thread is still inside the
\* read it was in when the flag was cleared.
C21_Witness ==
    /\ orchPc = "grace"
    /\ recPc = "record"
    /\ ~running
    /\ reads < MaxBatches

\* C22: when opening or reading the primary stream has raised, the capture
\* loop has ended by returning, the running flag is false, and the exception
\* has not left the capture thread's function.
C22_DeviceErrorEndsLoop ==
    rec_error \in {"open", "read"}
    => (recPc = "exited" /\ ~running /\ recPc /= "raised")

\* A read raised in the middle of a session that goes on.
C22_Witness ==
    /\ rec_error = "read"
    /\ recPc = "exited"
    /\ ~running
    /\ puts >= 1
    /\ orchPc = "recording"

\* C23: when mixing is on, a secondary device is set and its stream cannot be
\* opened at the start of the capture loop, the loop goes on to its read
\* cycle with mixing switched off and the running flag untouched.
C23_MicOpenFailureDegrades ==
    [][(recPc = "open" /\ mix_mic /\ mic_device /= NoDevice
        /\ rec_error' = "mic_open")
       => (recPc' = "check" /\ ~mix_mic' /\ running' = running)]_vars

\* Vocabulary of the selection properties.
LoopbackIndices == { i \in 1..Len(mics) : mics[i].isloopback }
MatchesDefaultOutput(d) ==
    /\ d.isloopback
    /\ default_speaker.status = "device"
    /\ Contains(default_speaker.name, d.name)
NoDefaultMatch == \A i \in 1..Len(mics) : ~MatchesDefaultOutput(mics[i])
SelectReturned == orchPc /= "select" /\ selected
SelectEnded == orchPc /= "select"

\* C24: after select_device(manual_mode=False), when no loopback device
\* matches the default output by name the primary device is the first
\* loopback device of the list; when the list has no loopback device the
\* call does not return; and whenever it returns the primary device is a
\* loopback device.
C24_AutoFallsBackToFirstLoopback ==
    (SelectEnded /\ ~manual_mode) =>
        /\ (SelectReturned => loopback_device.isloopback)
        /\ (SelectReturned /\ NoDefaultMatch /\ LoopbackIndices /= {})
              => \E i \in LoopbackIndices :
                    /\ loopback_device = mics[i]
                    /\ \A j \in LoopbackIndices : i <= j
        /\ (LoopbackIndices = {} => ~SelectReturned)

\* Vocabulary: the list has a device a recording can be mixed from.
CaptureIndices == { i \in 1..Len(mics) : ~mics[i].isloopback }

\* No capture device of the list bears the configured name (or none is
\* configured); the system has no default microphone, or it is not a capture
\* device of the list.
NoNameMatch ==
    \/ mic_device_name = <<>>
    \/ \A i \in CaptureIndices : Lower(mics[i].name) /= Lower(mic_device_name)
NoDefaultCapture ==
    \/ default_microphone.status /= "device"
    \/ \A i \in CaptureIndices : mics[i].name /= default_microphone.name

\* C25: a recorder constructed with mixing on, for which there is no name
\* match and no default capture device, comes out of select_device (which
\* returns) with mix_mic false, and its capture loop then opens no secondary
\* stream and runs; and after select_device has returned, mix_mic true
\* implies that a secondary device is set and is not a loopback device.
C25_UnresolvedDisablesMix ==
    /\ (SelectEnded /\ mix_requested /\ Len(mics) > 0 /\ mics /= ListingFails
        /\ NoNameMatch /\ NoDefaultCapture)
          => (/\ SelectReturned
              /\ ~mix_mic
              /\ ~mic_recorder
              /\ rec_error = "none"
              /\ (orchPc /= "constructed" => recPc \in {"open", "check", "record"}))
    /\ (SelectReturned /\ mix_mic)
          => (mic_device /= NoDevice /\ ~mic_device.isloopback)

\* The part of C25 the code keeps: the same with "the list holds no capture
\* device" for "no name match and no default capture device".
C25_NoCaptureDisablesMix ==
    /\ (SelectEnded /\ mix_requested /\ Len(mics) > 0 /\ CaptureIndices = {})
          => (/\ SelectReturned
              /\ ~mix_mic
              /\ ~mic_recorder
              /\ rec_error = "none"
              /\ (orchPc /= "constructed" => recPc \in {"open", "check", "record"}))
    /\ (SelectReturned /\ mix_mic)
          => (mic_device /= NoDevice /\ ~mic_device.isloopback)

\* Vocabulary: x limited to the valid amplitude range.
Clamp(x, lo, hi) == IF x < lo THEN lo ELSE IF x > hi THEN hi ELSE x

\* The payload the capture loop enqueued last.
LastPut == q[Len(q)].data

\* C26: a batch enqueued while mixing is active has, at every index, the
\* clipped half of the gain-weighted sum of the two batches' samples at that
\* index (to the resolution of the fixed-point units), so it lies in
\* [-1, 1]; and primary 0.4 with secondary 0.6 at gains 1.0 gives 0.5.
C26_MixedSample ==
    /\ (q /= <<>> /\ loop_data /= <<>> /\ q[Len(q)].no = puts)
          => /\ Len(LastPut) = Len(loop_data)
             /\ \A i \in 1..Len(LastPut) :
                   LET sum == loopback_gain * loop_data[i] + mic_gain * mic_data[i]
                       exact == Clamp(sum, -2 * FullScale, 2 * FullScale)
                   IN  /\ 2 * LastPut[i] - exact \in {-1, 0, 1}
                       /\ (exact % 2 = 0 => 2 * LastPut[i] = exact)
                       /\ LastPut[i] >= -FullScale
                       /\ LastPut[i] <= FullScale
    /\ MixSources(<<400, 400>>, <<600, 600>>, 1, 1) = <<500, 500>>

\* A mixed batch whose second sample was clipped and whose first was not.
C26_Witness ==
    /\ q /= <<>>
    /\ mix_mic
    /\ loop_data = <<1, -500>>
    /\ mic_data = <<3, -900>>
    /\ loopback_gain = 2
    /\ mic_gain = 2
    /\ LastPut = <<4, -FullScale>>

\* Vocabulary of the configuration properties.
PolicyLoaded == cfgPc \notin {"new", "loaded"}
WrongTypeParameter ==
    /\ config_file.kind = "mapping"
    /\ config_file.transcription.t = "map"
    /\ \E k \in PolicyKeys : config_file.transcription.v[k].t \notin {"num", "absent"}
Malformed ==
    \/ config_file.kind \in {"unparseable", "scalar"}
    \/ (config_file.kind = "mapping"
        /\ config_file.transcription.t \in {"null", "str", "list"})
    \/ WrongTypeParameter

\* C27: with a malformed configuration source (a file that does not parse,
\* a section of the wrong type, a policy parameter of the wrong type) the
\* driver holds the default policy parameters and its evaluations decide
\* instead of failing.
C27_MalformedFallsBackToDefaults ==
    (Malformed /\ PolicyLoaded)
    => (policy = DefaultTranscription /\ cfgPc /= "type_error")

\* The part of C27 the code keeps: the same for a file that does not parse
\* and for a document or section of the wrong type.
C27_MalformedFileOrSection ==
    (Malformed /\ ~WrongTypeParameter /\ PolicyLoaded)
    => (policy = DefaultTranscription /\ cfgPc /= "type_error")

\* C28: the loaded policy parameters are numbers with
\* min_duration < max_duration and no negative duration or threshold.
C28_PolicyInvariant ==
    PolicyLoaded =>
        /\ \A k \in PolicyKeys : policy[k].t = "num" /\ policy[k].v >= 0
        /\ policy.min_duration.v < policy.max_duration.v

\* The part of C28 the code keeps: once read, the parameters do not change.
C28_PolicyFixed ==
    [][(cfgPc \notin {"new", "loaded"}) => (policy' = policy)]_vars

\* C29: any two sessions created have different identifiers, and so
\* different directories and transcript files.
C29_SessionIdsUnique ==
    \A i, j \in 1..Len(sessions) :
        i /= j =>
            /\ sessions[i].session_id /= sessions[j].session_id
            /\ BaseDir(sessions[i].session_id) /= BaseDir(sessions[j].session_id)
            /\ TranscriptRawPath(sessions[i].session_id)
                  /= TranscriptRawPath(sessions[j].session_id)
            /\ TranscriptLogseqPath(sessions[i].session_id)
                  /= TranscriptLogseqPath(sessions[j].session_id)

\* The part of C29 the code keeps: sessions created in different seconds
\* have different identifiers.
C29_UniqueAcrossSeconds ==
    [][\A i \in 1..Len(sessions) :
          (Len(sessions') > Len(sessions)
           /\ sessions[i].session_id = sessions'[Len(sessions')].session_id)
          => sessions[i].session_id = SessionId(now)]_vars

\* Vocabulary: s is an initial part of t.
IsPrefix(s, t) == Len(s) <= Len(t) /\ SubSeq(t, 1, Len(s)) = s

\* C30: no step of the program removes, alters or reorders a record of the
\* raw transcript or of the structured-notes file: after every step each
\* file begins with what it held before.
C30_AppendOnly ==
    [][/\ IsPrefix(transcript_raw, transcript_raw')
       /\ IsPrefix(transcript_logseq, transcript_logseq')]_vars

\* The part of C30 the code keeps: the raw transcript is append-only.
C30_RawAppendOnly == [][IsPrefix(transcript_raw, transcript_raw')]_vars

\* ------------------------------------------- the driver under fairness
\* The session while it records, with no failure injected: the transcription
\* call and the writes always return.
NextRecording ==
    \/ OrchStartRecording \/ OrchStartTranscriber
    \/ RecOpen \/ RecCheck \/ RecReadDeliver
    \/ DrvDrainGet \/ DrvEval \/ DrvSleep
    \/ TbCheck \/ TbArchive \/ TbResample \/ TbTranscribe
    \/ TbWriteRaw \/ TbWriteLogseq \/ TbClear

\* The driver thread is started after the recorder (cli.py, app_pro.py
\* 351-354) and, once started, is scheduled again and again: process_audio
\* is `while True` with a sleep of 0.1 s between iterations.  No fairness is
\* assumed of the capture thread.
SpecDriverFair ==
    /\ Init
    /\ [][NextRecording]_vars
    /\ WF_vars(OrchStartTranscriber \/ DriverStep)

\* The number of samples from which d >= max_duration (line 210).
MaxSamples == (max_duration * native_sample_rate + 999) \div 1000

InitGui ==
    /\ orchPc = "constructed"
    /\ Constructed
    /\ DefaultPolicyLoaded
    /\ sessions = <<>>
    /\ mics \in MicLists
    /\ default_speaker \in {Named(<<"S">>), Raises}
    /\ default_microphone = Nothing
    /\ loopback_device = NoDevice
    /\ mic_device = NoDevice
    /\ mix_mic = FALSE
    /\ mix_requested = FALSE
    /\ mic_device_name = <<>>
    /\ mic_gain = 1
    /\ loopback_gain = 1
    /\ manual_mode = FALSE
    /\ selected = FALSE

\* Lines 330-338: the default speaker's loopback device, else the first
\* loopback device of the list, else nothing.
GuiDevice(l, speaker) ==
    LET loopbacks == { i \in 1..Len(l) : l[i].isloopback }
    IN  IF FindDefaultLoopback(l, speaker) /= NoDevice
        THEN FindDefaultLoopback(l, speaker)
        ELSE IF loopbacks /= {} THEN l[FirstIndex(loopbacks)] ELSE NoDevice

\* ScribeProGUI.start_recording (lines 321-372), reached through
\* toggle_recording while is_recording is false.  SessionManager() and
\* AudioRecorder() are constructed anew; the device found is stored in
\* recorder.mic, and select_device() is not called, so loopback_device keeps
\* the None of the constructor.  When the listing raises, or no device is
\* found (reading the attribute mic, which was never set, raises), the
\* handler's except clause ends it there.  Else a new Transcriber is
\* constructed, the capture thread and a new process_audio thread are
\* started and is_recording is set; the process_audio thread of the session
\* before keeps running, and transcriber_thread no longer refers to it.  The
\* step is taken once the capture thread of the session before has ended.
\* No batch is read in this specification, so the queue, the files and the
\* history of the new objects equal those of the old ones.
GuiStartRecording ==
    /\ ~gui.is_recording
    /\ recPc \in {"idle", "exited"}
    /\ Len(sessions) < MaxSessions
    /\ sessions' = Append(sessions, [session_id |-> SessionId(now), by |-> "gui"])
    /\ paused' = FALSE
    /\ q' = <<>>
    /\ loopback_device' = NoDevice
    /\ mic_device' = NoDevice
    /\ IF mics = ListingFails \/ GuiDevice(mics, default_speaker) = NoDevice
          THEN /\ running' = FALSE
               /\ recPc' = "idle"
               /\ gui' = [gui EXCEPT !.mic = NoDevice]
               /\ UNCHANGED <<drvPc, buffer, silent_chunks_count, chunk_counter, stale>>
          ELSE /\ running' = TRUE
               /\ recPc' = "open"
               /\ drvPc' = "drain"
               /\ buffer' = <<>>
               /\ silent_chunks_count' = 0
               /\ chunk_counter' = 0
               /\ stale' = [stale EXCEPT !.driver_loops =
                               @ + (IF drvPc = "idle" THEN 0 ELSE 1)]
               /\ gui' = [gui EXCEPT !.is_recording = TRUE,
                                     !.mic = GuiDevice(mics, default_speaker)]
    /\ UNCHANGED <<init_call, archives, lockVars, synthVars, cfgVars, mics, default_speaker,
                   default_microphone, mic_device_name, mic_gain, loopback_gain,
                   manual_mode, selected, mix_requested, mix_mic, mic_recorder,
                   rec_error, loop_data, mic_data, tsVars, faultVars, submits,
                   orchPc, payload, reads, max_silent_chunks, diskVars,
                   callback_calls, faults, histVars>>

\* ScribeProGUI.stop_recording (lines 388-409) while is_recording is true:
\* recorder.stop_recording() clears running and joins the capture thread for
\* at most one second, then the flags are cleared.  Nothing stops the
\* process_audio thread.
GuiStopRecording ==
    /\ gui.is_recording
    /\ running' = FALSE
    /\ gui' = [gui EXCEPT !.is_recording = FALSE, !.is_paused = FALSE]
    /\ UNCHANGED <<stale, init_call, archives, lockVars, devVars, cfgVars, sessions, synthVars,
                   tsVars, faultVars, submits, orchPc, paused, q, recPc, payload,
                   reads, drvVars, diskVars, callback_calls, faults, histVars>>

\* The front end over several recordings, with the capture thread and the
\* process_audio thread of the current one.
NextGui ==
    \/ GuiStartRecording \/ GuiStopRecording
    \/ RecOpen
    \/ DrvEval \/ DrvSleep

SpecGui == InitGui /\ [][NextGui]_vars

\* The process_audio loops that are running.
DriverLoops == stale.driver_loops + (IF drvPc = "idle" THEN 0 ELSE 1)

\* C32: at most one driver loop is live at any time, over any sequence of
\* recordings started and stopped by the front end.
C32_OneDriverLoop == DriverLoops <= 1

\* C33: when the capture loop has returned after start_recording, for
\* whatever reason, the running flag is false.
C33_EndedLoopClearsRunning == (recPc = "exited") => ~running

\* The positions of a capture thread that has not returned.
CapturePcs == {"open", "check", "record", "deliver", "put"}

\* C34: while the front end is marked as recording and no device call has
\* raised, the capture loop it started is live.
C34_RecordingMeansCapturing ==
    (gui.is_recording /\ rec_error = "none") => recPc \in CapturePcs

\* --------------------------------- one recorder started more than once
\* start_recording() on a recorder whose stop_recording() has returned
\* (lines 200-204): running is set, and a new thread replaces self.thread.
\* Nothing else is reset.  The thread that was running record_loop is taken
\* to have returned or to be inside its read (the case of a join that timed
\* out); in the second case it runs on, and self.thread no longer refers to
\* it.
RecorderRestart ==
    /\ orchPc = "grace"
    /\ recPc \in {"exited", "record"}
    /\ recPc = "record" => stale.capture_loops < MaxStaleLoops
    /\ running' = TRUE
    /\ recPc' = "open"
    /\ orchPc' = "recording"
    /\ stale' = [stale EXCEPT !.capture_loops =
                    @ + (IF recPc = "record" THEN 1 ELSE 0)]
    /\ UNCHANGED <<gui, init_call, archives, lockVars, devVars, cfgVars, sessions, synthVars,
                   tsVars, faultVars, submits, paused, q, payload, reads, drvVars,
                   diskVars, callback_calls, faults, histVars>>

\* A thread that start_recording() has replaced comes back from its read
\* (lines 159-172, then the loop test of line 158): the batch is enqueued
\* unless the recorder is paused, and the thread goes on to its next read
\* when running is true and returns when it is false.  The thread shares
\* running, paused and the queue with the thread that replaced it.
StaleLoopReads ==
    /\ stale.capture_loops > 0
    /\ reads < MaxBatches
    /\ reads' = reads + 1
    /\ \E b \in BatchSet :
          IF paused
          THEN UNCHANGED <<q, puts>>
          ELSE /\ q' = QueuePut(q, [no |-> puts + 1, data |-> b])
               /\ puts' = puts + 1
    /\ stale' = [stale EXCEPT !.capture_loops = IF running THEN @ ELSE @ - 1]
    /\ UNCHANGED <<gui, init_call, archives, lockVars, devVars, cfgVars, sessions, synthVars,
                   tsVars, faultVars, submits, orchPc, running, paused, recPc,
                   payload, drvVars, diskVars, callback_calls, faults, gets,
                   lastGot, segBatches, cutKind, dispatchNo, silentRun,
                   callsInRun, lastSeg, trailingAtStop, evalAfterStop>>

\* One AudioRecorder driven through start, pause, resume, stop and start
\* again; the driver is started and its steps are left out.
NextRecorder ==
    \/ OrchStartRecording \/ OrchStartTranscriber
    \/ Pause \/ Resume
    \/ OrchStopRecording \/ OrchJoinReturns \/ RecorderRestart
    \/ RecOpen \/ RecCheck \/ RecRead \/ RecTestPaused \/ RecPut
    \/ StaleLoopReads

SpecRecorder == Init /\ [][NextRecorder]_vars

\* The capture loops of the recorder that are running.
CaptureLoops == stale.capture_loops + (IF recPc \in CapturePcs THEN 1 ELSE 0)

\* C35: at most one capture loop of the recorder is live at any time.
C35_OneCaptureLoop == CaptureLoops <= 1

\* C36: every start_recording() leaves the recorder un-paused, so that the
\* batches read after it are enqueued.
C36_StartsUnpaused == [][(~running /\ running') => ~paused']_vars

\* C37: no audio is archived twice.  archives counts the archive files that
\* were written from the audio now in the buffer, over all the dispatches
\* and loop iterations since the buffer was last emptied.
C37_ArchivedOnce == archives <= 1

\* ------------------------------------------------- the recorder's gains
\* AudioRecorder(mic_gain=..., loopback_gain=...), lines 23-41, called by
\* the orchestrator before any recording: an empty queue, no device, not
\* running, not paused, mixing as asked for, and the two gains computed
\* from the arguments and the "audio" section of the configuration.
RecorderInit ==
    /\ orchPc = "constructed"
    /\ recPc = "idle"
    /\ \E c \in Calls :
          /\ init_call' = c
          /\ mic_gain' = EffectiveGain(c.mic_gain, c.audio_config.mic_gain)
          /\ loopback_gain' =
                EffectiveGain(c.loopback_gain, c.audio_config.loopback_gain)
    /\ q' = <<>>
    /\ running' = FALSE
    /\ paused' = FALSE
    /\ loopback_device' = NoDevice
    /\ mic_device' = NoDevice
    /\ mix_mic' = mix_requested
    /\ selected' = FALSE
    /\ UNCHANGED <<orchPc, recPc, payload, reads, drvVars, diskVars,
                   callback_calls, faults, histVars, tsVars, faultVars,
                   submits, mics, default_speaker, default_microphone,
                   mic_device_name, manual_mode, mix_requested, mic_recorder,
                   rec_error, loop_data, mic_data, cfgVars, sessions,
                   synthVars, gui, stale, archives, lockVars>>

NextGain == RecorderInit

SpecGain == Init /\ [][NextGain]_vars

\* A gain is configured when the argument is a number, or when there is no
\* argument and the configuration file gives a number.
Configured(arg, setting) == arg /= Null \/ setting.t = "num"

\* C38: after AudioRecorder(...), each gain is the configured number, a
\* configured 0 included, and is 1.0 only when no number was configured.
C38_GainsAsConfigured ==
    init_call.called =>
        /\ mic_gain =
              (IF Configured(init_call.mic_gain, init_call.audio_config.mic_gain)
               THEN RawGain(init_call.mic_gain, init_call.audio_config.mic_gain).v
               ELSE 1)
        /\ loopback_gain =
              (IF Configured(init_call.loopback_gain,
                             init_call.audio_config.loopback_gain)
               THEN RawGain(init_call.loopback_gain,
                            init_call.audio_config.loopback_gain).v
               ELSE 1)

\* ------------------------------------------------ the single-instance lock
\* utils/instance.py.  Each process calls check_instance_running(), and
\* acquire_lock() when that returned False; it calls release_lock() when it
\* ends, unless it is killed.  One action is one access to the file system;
\* opening, reading or writing, and closing the file is one access.
\* is_process_running(pid), lines 9-23.
IsProcessRunning(pid) ==
    pid \in Procs /\ procs[pid].pc \notin {"exit", "refused", "dead"}

ProcGoes(p, pc, text) ==
    procs' = [procs EXCEPT ![p] = [pc |-> pc, text |-> text]]

LockUntouched ==
    UNCHANGED <<orchPc, recVars, drvVars, diskVars, callback_calls, faults,
                histVars, tsVars, faultVars, submits, devVars, cfgVars,
                sessions, synthVars, gui, stale, init_call, archives>>

\* Line 34: no lock file, check_instance_running() returns False.
ChkExists(p) ==
    /\ procs[p].pc = "start"
    /\ ProcGoes(p, IF lock_file.exists THEN "chk_read" ELSE "acquire", <<>>)
    /\ UNCHANGED lock_file
    /\ LockUntouched

\* Lines 38-39: the file is read; a missing file (OSError) or a text that
\* is no number (ValueError) returns False at lines 51-53.
ChkRead(p) ==
    /\ procs[p].pc = "chk_read"
    /\ IF lock_file.exists /\ lock_file.text /= <<>>
          THEN ProcGoes(p, "chk_running", lock_file.text)
          ELSE ProcGoes(p, "acquire", <<>>)
    /\ UNCHANGED lock_file
    /\ LockUntouched

\* Lines 41-42: the process named in the file runs, return True; the caller
\* does not start.  Else the lock is stale.
ChkIsRunning(p) ==
    /\ procs[p].pc = "chk_running"
    /\ ProcGoes(p, IF IsProcessRunning(procs[p].text[1])
                      THEN "refused" ELSE "chk_remove", procs[p].text)
    /\ UNCHANGED lock_file
    /\ LockUntouched

\* Lines 45-49: os.remove of the stale lock file, OSError ignored; return
\* False.
ChkRemoveStale(p) ==
    /\ procs[p].pc = "chk_remove"
    /\ lock_file' = NoFile
    /\ ProcGoes(p, "acquire", procs[p].text)
    /\ LockUntouched

\* acquire_lock(), lines 68-70: the file is created or truncated and the
\* caller's PID written; return True.
AcquireLock(p) ==
    /\ procs[p].pc = "acquire"
    /\ lock_file' = FileOf(p)
    /\ ProcGoes(p, "holding", procs[p].text)
    /\ LockUntouched

\* release_lock(), line 80: nothing to release when the file is missing.
RelExists(p) ==
    /\ procs[p].pc = "holding"
    /\ ProcGoes(p, IF lock_file.exists THEN "rel_read" ELSE "exit", <<>>)
    /\ UNCHANGED lock_file
    /\ LockUntouched

\* Lines 82-85: the file is read and its PID compared with os.getpid();
\* OSError and ValueError end the call (87-88).
RelRead(p) ==
    /\ procs[p].pc = "rel_read"
    /\ ProcGoes(p, IF lock_file.exists /\ lock_file.text = <<p>>
                      THEN "rel_remove" ELSE "exit", lock_file.text)
    /\ UNCHANGED lock_file
    /\ LockUntouched

\* Line 86: os.remove(lock_file).
RelRemove(p) ==
    /\ procs[p].pc = "rel_remove"
    /\ lock_file' = NoFile
    /\ ProcGoes(p, "exit", procs[p].text)
    /\ LockUntouched

\* A process that holds the lock is killed: release_lock() is not called
\* and the file stays.
ProcKilled(p) ==
    /\ procs[p].pc = "holding"
    /\ ProcGoes(p, "dead", procs[p].text)
    /\ UNCHANGED lock_file
    /\ LockUntouched

NextLock ==
    \E p \in Procs :
        \/ ChkExists(p)
        \/ ChkRead(p)
        \/ ChkIsRunning(p)
        \/ ChkRemoveStale(p)
        \/ AcquireLock(p)
        \/ RelExists(p)
        \/ RelRead(p)
        \/ RelRemove(p)
        \/ ProcKilled(p)

SpecLock == Init /\ [][NextLock]_vars

\* check_instance_running() returned False to p, acquire_lock() returned
\* True, and p still runs without having called release_lock().
HoldsLock(p) == procs[p].pc = "holding"

\* C39: at most one live process has seen no running instance and acquired
\* the lock.
C39_OneInstance == Cardinality({p \in Procs : HoldsLock(p)}) <= 1

\* C40: the os.remove of release_lock() deletes a lock file only when the
\* file holds the PID of the process that called it.
C40_ReleasesOwnLock ==
    [][\A p \in Procs :
          (procs[p].pc = "rel_remove" /\ procs'[p].pc = "exit"
           /\ lock_file.exists)
             => lock_file.text = <<p>>]_vars

====
